---------------------------- MODULE Spec2Model ----------------------------
(***************************************************************************)
(* Model of the helgo place-dataset scripts:                               *)
(*   scripts/build_places_zurich_api.py  (Zurich open-data build)          *)
(*   scripts/build_places_osm.py         (OpenStreetMap build)             *)
(*   scripts/enrich_places_wikidata.py   (field-fill pass)                 *)
(*   scripts/generate_descriptions_batch.py, embed_places_openai_batch.py  *)
(*                                       (merge of batch results)          *)
(*   scripts/embed_places_qwen.py        (local embedding pass)            *)
(* Python strings are TLA+ strings; Python None is the value None below.   *)
(* Names keep the source's; z_ and o_ mark what belongs to the Zurich and  *)
(* to the OSM script where both define the same name.                      *)
(***************************************************************************)
EXTENDS Integers, Sequences, FiniteSets, TLC

VARIABLES
    \* category_from_type driver
    c_types, c_categories, c_result, c_pc,
    \* build_places_zurich_api.main
    places_by_id, z_order, z_count, z_last, z_pc, z_output, z_hist,
    \* build_places_osm.build_places
    places, seen, per_category, limit_per_category, o_count, o_last, o_pc, o_output,
    \* enrich_places_wikidata.main
    e_input, e_places, e_world, e_limit, e_scanned, e_updated, e_call, e_last, e_pc,
    e_output, e_round, e_first,
    \* merge_results of generate_descriptions_batch and of embed_places_openai_batch
    m_kind, m_input, m_results, m_places, m_next, m_pc, m_output, m_round, m_first,
    \* embed_places_qwen.main
    q_input, q_places, q_next, q_pc, q_output, q_round, q_first

cvars == <<c_types, c_categories, c_result, c_pc>>
zvars == <<places_by_id, z_order, z_count, z_last, z_pc, z_output, z_hist>>
ovars == <<places, seen, per_category, limit_per_category, o_count, o_last, o_pc, o_output>>
evars == <<e_input, e_places, e_world, e_limit, e_scanned, e_updated, e_call, e_last, e_pc,
           e_output, e_round, e_first>>
\* the passes over the persisted dataset
mvars == <<m_kind, m_input, m_results, m_places, m_next, m_pc, m_output, m_round, m_first>>
qvars == <<q_input, q_places, q_next, q_pc, q_output, q_round, q_first>>
pvars == <<evars, mvars, qvars>>
vars == <<cvars, zvars, ovars, pvars>>

-----------------------------------------------------------------------------
(* Python values                                                           *)

None == "<None>"

\* bool(v) for a value that is None or a str
Truthy(v) == v # None /\ v # ""

\* a or b
Or(a, b) == IF Truthy(a) THEN a ELSE b

Range(s) == {s[i] : i \in 1..Len(s)}

RECURSIVE SelectStr(_, _)
\* [x for x in s if x in allowed]
SelectStr(s, allowed) ==
    IF s = <<>> THEN <<>>
    ELSE IF Head(s) \in allowed THEN <<Head(s)>> \o SelectStr(Tail(s), allowed)
         ELSE SelectStr(Tail(s), allowed)

CharAt(s, i) == SubSeq(s, i, i)

UpperChars == "ABCDEFGHIJKLMNOPQRSTUVWXYZÉ"
LowerChars == "abcdefghijklmnopqrstuvwxyzé"

\* the lower-case letter of each upper-case letter
LowerOf ==
    [c \in {CharAt(UpperChars, i) : i \in 1..Len(UpperChars)} |->
        CharAt(LowerChars, CHOOSE i \in 1..Len(UpperChars) : CharAt(UpperChars, i) = c)]

\* str.lower() on one character
LowerChar(c) == IF c \in DOMAIN LowerOf THEN LowerOf[c] ELSE c

RECURSIVE Lower(_)
\* str.lower()
Lower(s) ==
    IF Len(s) = 0 THEN ""
    ELSE LowerChar(CharAt(s, 1)) \o Lower(SubSeq(s, 2, Len(s)))

\* Python `sub in s` for strings
Contains(sub, s) ==
    \E i \in 1..(Len(s) - Len(sub) + 1) : SubSeq(s, i, i + Len(sub) - 1) = sub

\* sep.join(parts)
RECURSIVE Join(_, _)
Join(sep, parts) ==
    IF parts = <<>> THEN ""
    ELSE IF Len(parts) = 1 THEN parts[1]
    ELSE parts[1] \o sep \o Join(sep, Tail(parts))

\* [part for part in parts if part]
RECURSIVE Present(_)
Present(parts) ==
    IF parts = <<>> THEN <<>>
    ELSE IF Truthy(Head(parts)) THEN <<Head(parts)>> \o Present(Tail(parts))
         ELSE Present(Tail(parts))

-----------------------------------------------------------------------------
(* build_places_zurich_api.py: tables                                      *)

CATEGORY_DEFAULTS ==
    [ restaurant    |-> [indoorOutdoor |-> "indoor",  durationMins |-> 90,  bestTimeOfDay |-> "night"],
      cafe          |-> [indoorOutdoor |-> "indoor",  durationMins |-> 60,  bestTimeOfDay |-> "morning"],
      bar           |-> [indoorOutdoor |-> "indoor",  durationMins |-> 90,  bestTimeOfDay |-> "night"],
      museum        |-> [indoorOutdoor |-> "indoor",  durationMins |-> 60,  bestTimeOfDay |-> "afternoon"],
      market        |-> [indoorOutdoor |-> "indoor",  durationMins |-> 60,  bestTimeOfDay |-> "morning"],
      park          |-> [indoorOutdoor |-> "outdoor", durationMins |-> 75,  bestTimeOfDay |-> "afternoon"],
      viewpoint     |-> [indoorOutdoor |-> "outdoor", durationMins |-> 45,  bestTimeOfDay |-> "sunset"],
      walk          |-> [indoorOutdoor |-> "outdoor", durationMins |-> 75,  bestTimeOfDay |-> "afternoon"],
      activity      |-> [indoorOutdoor |-> "mixed",   durationMins |-> 90,  bestTimeOfDay |-> "afternoon"],
      shopping      |-> [indoorOutdoor |-> "indoor",  durationMins |-> 60,  bestTimeOfDay |-> "afternoon"],
      sport         |-> [indoorOutdoor |-> "mixed",   durationMins |-> 90,  bestTimeOfDay |-> "afternoon"],
      wellness      |-> [indoorOutdoor |-> "indoor",  durationMins |-> 90,  bestTimeOfDay |-> "afternoon"],
      accommodation |-> [indoorOutdoor |-> "indoor",  durationMins |-> 120, bestTimeOfDay |-> "night"],
      event         |-> [indoorOutdoor |-> "mixed",   durationMins |-> 120, bestTimeOfDay |-> "night"],
      sightseeing   |-> [indoorOutdoor |-> "outdoor", durationMins |-> 60,  bestTimeOfDay |-> "afternoon"] ]

ALLOWED_TAGS ==
    { "cozy", "hip", "lake", "oldtown", "quiet", "touristy", "romantic", "cheap",
      "view", "photo", "park", "green", "narrow", "bridge", "city", "street",
      "mexican", "italian", "sushi", "burger", "asian", "swiss", "brunch",
      "coffee", "cocktails", "beer", "wine", "vegan", "historic" }

-----------------------------------------------------------------------------
(* category_from_type                                                      *)

\* has_any(values): any(any(value in cat for value in values) for cat in lower_categories)
has_any(values, lower_categories) ==
    \E i \in 1..Len(lower_categories) :
        \E j \in 1..Len(values) : Contains(values[j], lower_categories[i])

\* category_from_type_codes without the final return "activity"
category_from_type_codes_only(types) ==
    LET T == Range(types) IN
    IF "restaurant" \in T THEN "restaurant"
    ELSE IF "cafeorcoffeeshop" \in T THEN "cafe"
    ELSE IF "barorpub" \in T \/ "bar" \in T THEN "bar"
    ELSE IF "museum" \in T THEN "museum"
    ELSE IF "hotel" \in T \/ "lodgingbusiness" \in T \/ "hostel" \in T THEN "accommodation"
    ELSE None

\* the type-code rule set, consulted after the keyword rules
category_from_type_codes(types) ==
    LET T == Range(types) IN
    IF "restaurant" \in T THEN "restaurant"
    ELSE IF "cafeorcoffeeshop" \in T THEN "cafe"
    ELSE IF "barorpub" \in T \/ "bar" \in T THEN "bar"
    ELSE IF "museum" \in T THEN "museum"
    ELSE IF "hotel" \in T \/ "lodgingbusiness" \in T \/ "hostel" \in T THEN "accommodation"
    ELSE "activity"

\* category_from_type with the type codes consulted before the keyword rules
category_from_type_codes_first(types, categories) ==
    LET lower_categories == [i \in 1..Len(categories) |-> Lower(categories[i])]
        has(values) == has_any(values, lower_categories)
        by_code == category_from_type_codes_only(types)
    IN
    IF by_code # None THEN by_code
    ELSE IF has(<<"hotel", "accommodation", "hostel", "lodging">>) THEN "accommodation"
    ELSE IF has(<<"event", "festival", "concert", "show", "theatre", "theater",
                  "exhibition", "performance">>) THEN "event"
    ELSE IF has(<<"restaurant", "gastronomy", "dinner", "lunch", "breakfast",
                  "meal", "cuisine">>) THEN "restaurant"
    ELSE IF has(<<"cafe", "coffee", "tea room", "coffee house">>) THEN "cafe"
    ELSE IF has(<<"bar", "pub", "nightlife", "club", "disco", "cocktail", "lounge">>) THEN "bar"
    ELSE IF has(<<"museum", "gallery">>) THEN "museum"
    ELSE IF has(<<"market">>) THEN "market"
    ELSE IF has(<<"park", "garden", "nature", "water", "lake", "river">>) THEN "park"
    ELSE IF has(<<"view", "panorama", "lookout", "vantage">>) THEN "viewpoint"
    ELSE IF has(<<"walk", "hiking", "trail", "route">>) THEN "walk"
    ELSE IF has(<<"shopping", "shop", "boutique", "mall", "store">>) THEN "shopping"
    ELSE IF has(<<"sport", "fitness", "gym", "swimming", "climbing", "ice rink",
                  "tennis">>) THEN "sport"
    ELSE IF has(<<"wellness", "spa", "sauna", "massage", "bath">>) THEN "wellness"
    ELSE IF has(<<"sight", "sightseeing", "attraction", "landmark", "historic">>)
         THEN "sightseeing"
    ELSE "activity"

category_from_type(types, categories) ==
    LET lower_categories == [i \in 1..Len(categories) |-> Lower(categories[i])]
        has(values) == has_any(values, lower_categories)
    IN
    IF has(<<"hotel", "accommodation", "hostel", "lodging">>) THEN "accommodation"
    ELSE IF has(<<"event", "festival", "concert", "show", "theatre", "theater",
                  "exhibition", "performance">>) THEN "event"
    ELSE IF has(<<"restaurant", "gastronomy", "dinner", "lunch", "breakfast",
                  "meal", "cuisine">>) THEN "restaurant"
    ELSE IF has(<<"cafe", "coffee", "tea room", "coffee house">>) THEN "cafe"
    ELSE IF has(<<"bar", "pub", "nightlife", "club", "disco", "cocktail", "lounge">>) THEN "bar"
    ELSE IF has(<<"museum", "gallery">>) THEN "museum"
    ELSE IF has(<<"market">>) THEN "market"
    ELSE IF has(<<"park", "garden", "nature", "water", "lake", "river">>) THEN "park"
    ELSE IF has(<<"view", "panorama", "lookout", "vantage">>) THEN "viewpoint"
    ELSE IF has(<<"walk", "hiking", "trail", "route">>) THEN "walk"
    ELSE IF has(<<"shopping", "shop", "boutique", "mall", "store">>) THEN "shopping"
    ELSE IF has(<<"sport", "fitness", "gym", "swimming", "climbing", "ice rink",
                  "tennis">>) THEN "sport"
    ELSE IF has(<<"wellness", "spa", "sauna", "massage", "bath">>) THEN "wellness"
    ELSE IF has(<<"sight", "sightseeing", "attraction", "landmark", "historic">>) THEN "sightseeing"
    ELSE category_from_type_codes(types)

-----------------------------------------------------------------------------
(* build_places_zurich_api.py: raw JSON values of a catalogue object       *)
(* A raw value carries its JSON kind in field k, as isinstance() sees it.  *)

JNull == [k |-> "null"]
JStr(s) == [k |-> "str", v |-> s]
JList(items) == [k |-> "list", items |-> items]
\* a localized text object {"en": .., "de": .., "default": ..}; a missing key is None
JText(en, de, default) == [k |-> "dict", en |-> en, de |-> de, default |-> default]
\* an image object {"url": ..}
JImage(url) == [k |-> "dict", url |-> url]
\* an address object; a missing key is None
JAddress(street, postal, locality, url, telephone) ==
    [k |-> "dict", streetAddress |-> street, postalCode |-> postal,
     addressLocality |-> locality, url |-> url, telephone |-> telephone]
EmptyAddress == JAddress(None, None, None, None, None)

\* identifiers keep their JSON type: Python compares 1 and "1" as different keys
IdStr(s) == [t |-> "str", s |-> s]
IdInt(s) == [t |-> "int", s |-> s]
NoId == [t |-> "NoneType", s |-> "None"]
IdTruthy(v) == v # NoId /\ v # IdStr("") /\ v # IdInt("0")

\* a geo object {"latitude": .., "longitude": ..}; numbers are kept as their text
Geo(lat, lon) == [latitude |-> lat, longitude |-> lon]
NoGeo == Geo(None, None)
GeoTruthy(g) == g # NoGeo

\* text_value
text_value(value) ==
    IF value.k = "dict" THEN Or(Or(value.en, value.de), value.default)
    ELSE IF value.k = "str" THEN value.v
    ELSE None

RECURSIVE RemoveTags(_)
\* re.sub(r"<[^>]+>", "", value)
RemoveTags(s) ==
    IF Len(s) = 0 THEN ""
    ELSE IF /\ CharAt(s, 1) = "<"
            /\ \E j \in 3..Len(s) :
                   CharAt(s, j) = ">" /\ \A m \in 2..(j - 1) : CharAt(s, m) # ">"
         THEN LET j == CHOOSE j \in 3..Len(s) :
                           CharAt(s, j) = ">" /\ \A m \in 2..(j - 1) : CharAt(s, m) # ">"
              IN RemoveTags(SubSeq(s, j + 1, Len(s)))
         ELSE CharAt(s, 1) \o RemoveTags(SubSeq(s, 2, Len(s)))

RECURSIVE LStrip(_)
LStrip(s) == IF Len(s) > 0 /\ CharAt(s, 1) = " " THEN LStrip(SubSeq(s, 2, Len(s))) ELSE s

RECURSIVE RStrip(_)
RStrip(s) ==
    IF Len(s) > 0 /\ CharAt(s, Len(s)) = " " THEN RStrip(SubSeq(s, 1, Len(s) - 1)) ELSE s

\* str.strip(); the only whitespace in the modelled strings is the space
Strip(s) == RStrip(LStrip(s))

\* strip_html (the modelled descriptions hold no character references, on which
\* html.unescape is the identity)
strip_html(value) ==
    IF ~Truthy(value) THEN None
    ELSE Strip(RemoveTags(value))

\* maps_url
maps_url(lat, lon) == "https://maps.google.com/?q=" \o lat \o "," \o lon

\* the tags one lower-cased label appends, in the order of the if-chain
tags_of_label(value) ==
    LET in(sub) == Contains(sub, value)
        when(cond, tags) == IF cond THEN tags ELSE <<>>
    IN
       when(in("gastro") \/ in("restaurant"), <<"city">>)
    \o when(in("mexic") \/ in("tex-mex") \/ in("latin"), <<"mexican">>)
    \o when(in("ital"), <<"italian">>)
    \o when(in("sushi") \/ in("japan"), <<"sushi">>)
    \o when(in("asian") \/ in("thai") \/ in("korean") \/ in("chinese"), <<"asian">>)
    \o when(in("burger"), <<"burger">>)
    \o when(in("american"), <<"burger">>)
    \o when(in("swiss"), <<"swiss">>)
    \o when(in("vegan") \/ in("vegetarian"), <<"vegan">>)
    \o when(in("coffee") \/ in("cafe"), <<"coffee">>)
    \o when(in("brunch"), <<"brunch">>)
    \o when(in("bar") \/ in("cocktail") \/ in("nightlife"), <<"cocktails">>)
    \o when(in("wine"), <<"wine">>)
    \o when(in("beer") \/ in("brew"), <<"beer">>)
    \o when(in("park") \/ in("garden"), <<"park", "green">>)
    \o when(in("view") \/ in("panorama"), <<"view", "photo">>)
    \o when(in("historic") \/ in("heritage"), <<"historic">>)
    \o when(in("quiet"), <<"quiet">>)
    \o when(in("romantic"), <<"romantic">>)
    \o when(in("lake") \/ in("river") \/ in("water"), <<"lake">>)
    \o when(in("old town") \/ in("oldtown"), <<"oldtown">>)

RECURSIVE appended_tags(_)
\* the list `tags` at the end of the for loop of tags_from_categories
appended_tags(categories) ==
    IF categories = <<>> THEN <<>>
    ELSE tags_of_label(Lower(Head(categories))) \o appended_tags(Tail(categories))

\* tags_from_categories
tags_from_categories(categories) == SelectStr(appended_tags(categories), ALLOWED_TAGS)

RECURSIVE extract_image_url(_)
\* extract_image_url
extract_image_url(image) ==
    IF image.k = "str" THEN image.v
    ELSE IF image.k = "dict" /\ image.url.k = "str" THEN image.url.v
    ELSE IF image.k = "list" /\ image.items # <<>> THEN extract_image_url(image.items[1])
    ELSE None

\* build_address
z_build_address(address) ==
    IF address.k # "dict" THEN None
    ELSE Join(", ", Present(<<address.streetAddress, address.postalCode,
                              address.addressLocality>>))

\* bool() of a raw JSON value
JTruthy(value) ==
    CASE value.k = "null" -> FALSE
      [] value.k = "str"  -> value.v # ""
      [] value.k = "list" -> value.items # <<>>
      [] value.k = "dict" -> value # EmptyAddress
      [] OTHER -> TRUE


-----------------------------------------------------------------------------
(* build_places_zurich_api.main: the fields read from one catalogue object *)

\* identifier = obj.get("identifier") or obj.get("id")
z_identifier(obj) == IF IdTruthy(obj.identifier) THEN obj.identifier ELSE obj.id

\* geo = obj.get("geoCoordinates") or obj.get("geo") or {}
z_geo(obj) ==
    IF GeoTruthy(obj.geoCoordinates) THEN obj.geoCoordinates
    ELSE IF GeoTruthy(obj.geo) THEN obj.geo
    ELSE NoGeo

z_lat(obj) == z_geo(obj).latitude
z_lon(obj) == z_geo(obj).longitude

\* name = text_value(name) or text_value(headline) or obj.get("title")
z_name(obj) == Or(Or(text_value(obj.name), text_value(obj.headline)), obj.title)

\* category_names = list((obj.get("category") or {}).keys())
z_category_names(obj) == obj.category

\* type_list
z_type_list(obj) ==
    IF obj.type.k = "str" THEN <<Lower(obj.type.v)>>
    ELSE IF obj.type.k = "list"
         THEN [i \in 1..Len(obj.type.items) |-> Lower(obj.type.items[i])]
    ELSE <<>>

z_description(obj) ==
    strip_html(Or(Or(Or(text_value(obj.disambiguatingDescription),
                        text_value(obj.description)),
                     text_value(obj.textTeaser)),
                  text_value(obj.titleTeaser)))

\* address = build_address(obj.get("address") or {})
z_address(obj) ==
    z_build_address(IF JTruthy(obj.address) THEN obj.address ELSE EmptyAddress)

\* website = obj.get("url"), else the address object's url
z_website(obj) ==
    IF ~Truthy(obj.url) /\ obj.address.k = "dict" THEN obj.address.url ELSE obj.url

\* phone = obj.get("telephone"), else the address object's telephone
z_phone(obj) ==
    IF ~Truthy(obj.telephone) /\ obj.address.k = "dict" THEN obj.address.telephone
    ELSE obj.telephone

z_photo_url(obj) == Or(extract_image_url(obj.image), extract_image_url(obj.photo))

\* z_tags without the call of tags_from_categories
z_tags_labels(category_names) == category_names

\* tags = tags_from_categories(category_names)
z_tags(category_names) == tags_from_categories(category_names)

\* z_rejected without the name test
z_rejected_unnamed(obj) ==
    \/ ~IdTruthy(z_identifier(obj))
    \/ z_lat(obj) = None \/ z_lon(obj) = None

\* the three `continue` conditions of the object loop
z_rejected(obj) ==
    \/ ~IdTruthy(z_identifier(obj))
    \/ z_lat(obj) = None \/ z_lon(obj) = None
    \/ ~Truthy(z_name(obj))

\* which `continue` a rejected object takes
z_continue(obj) ==
    IF ~IdTruthy(z_identifier(obj)) THEN "no_identifier"
    ELSE IF z_lat(obj) = None \/ z_lon(obj) = None THEN "no_coordinates"
    ELSE "no_name"

\* CATEGORY_DEFAULTS.get(place_category, CATEGORY_DEFAULTS["activity"])
z_defaults(place_category) ==
    IF place_category \in DOMAIN CATEGORY_DEFAULTS THEN CATEGORY_DEFAULTS[place_category]
    ELSE CATEGORY_DEFAULTS["activity"]

\* the dict stored on first insert
z_new_place(obj) ==
    LET place_category == category_from_type(z_type_list(obj), z_category_names(obj))
        defaults == z_defaults(place_category)
    IN [ id            |-> "zurich-" \o z_identifier(obj).s,
         name          |-> z_name(obj),
         category      |-> place_category,
         lat           |-> z_lat(obj),
         lon           |-> z_lon(obj),
         tags          |-> z_tags(z_category_names(obj)),
         address       |-> z_address(obj),
         website       |-> z_website(obj),
         phone         |-> z_phone(obj),
         photoUrl      |-> z_photo_url(obj),
         mapsUrl       |-> maps_url(z_lat(obj), z_lon(obj)),
         indoorOutdoor |-> defaults.indoorOutdoor,
         durationMins  |-> defaults.durationMins,
         bestTimeOfDay |-> defaults.bestTimeOfDay,
         description   |-> z_description(obj) ]

\* z_fill that never fills
z_fill_never(existing, incoming) == existing

\* z_fill without the `not existing.get(f)` test
z_fill_overwrite(existing, incoming) ==
    IF Truthy(incoming) THEN incoming ELSE existing

\* if not existing.get(f) and incoming: existing[f] = incoming
z_fill(existing, incoming) ==
    IF ~Truthy(existing) /\ Truthy(incoming) THEN incoming ELSE existing

\* z_tag_union with the existing tags left out
z_tag_replace(existing_tags, tags) == Range(tags)

\* {*existing.get("tags", []), *tags}
z_tag_union(existing_tags, tags) == Range(existing_tags) \cup Range(tags)

\* list(a_set): the elements in some order
ListsOf(S) == {l \in [1..Cardinality(S) -> S] : Range(l) = S}

\* z_merged that also takes the incoming description
z_merged_description(existing, obj, tag_list) ==
    [existing EXCEPT
        !.tags        = tag_list,
        !.photoUrl    = z_fill(@, z_photo_url(obj)),
        !.address     = z_fill(@, z_address(obj)),
        !.website     = z_fill(@, z_website(obj)),
        !.phone       = z_fill(@, z_phone(obj)),
        !.description = z_fill(@, z_description(obj))]

\* the existing dict after the else branch, for one order of the tag list
z_merged(existing, obj, tag_list) ==
    [existing EXCEPT
        !.tags     = tag_list,
        !.photoUrl = z_fill(@, z_photo_url(obj)),
        !.address  = z_fill(@, z_address(obj)),
        !.website  = z_fill(@, z_website(obj)),
        !.phone    = z_fill(@, z_phone(obj))]


-----------------------------------------------------------------------------
(* build_places_zurich_api.main: the object loop and the final write       *)

MaxObjects == 3

ZBase ==
    [ identifier |-> IdStr("1"), id |-> NoId,
      geoCoordinates |-> Geo("47.37", "8.54"), geo |-> NoGeo,
      name |-> JText("Kronenhalle", None, None), headline |-> JNull, title |-> None,
      category |-> <<"Gastronomy">>, type |-> JStr("Restaurant"),
      disambiguatingDescription |-> JNull,
      description |-> JText("<p>Classic </p>", None, None),
      textTeaser |-> JNull, titleTeaser |-> JNull,
      address |-> JAddress("Raemistrasse 4", "8001", "Zurich", None, None),
      url |-> "http://old", telephone |-> "+41 1",
      image |-> JImage(JStr("http://img/1")), photo |-> JNull ]

\* every optional field absent
ZBare ==
    [ZBase EXCEPT !.category = <<>>, !.type = JNull, !.description = JNull,
                  !.address = JNull, !.url = None, !.telephone = None, !.image = JNull]

\* the catalogue objects the fetches may return, in any order and repeatedly
ZurichObjects ==
    { ZBase,
      \* same identifier, every field different
      [ZBase EXCEPT !.name = JStr("Other"), !.geoCoordinates = Geo("47.30", "8.60"),
                    !.category = <<"Hiking", "Wine">>,
                    !.type = JList(<<"Hotel", "LodgingBusiness">>),
                    !.description = JNull, !.textTeaser = JStr("New"),
                    !.address = JAddress("Seestrasse 9", None, "Kilchberg", None, None),
                    !.url = "http://new", !.telephone = "+41 2",
                    !.image = JList(<<JStr("http://img/2")>>)],
      ZBare,
      \* identifier from the id key; contact details inside the address object
      [ZBare EXCEPT !.identifier = NoId, !.id = IdStr("1"),
                    !.category = <<"Burger American">>,
                    !.address = JAddress(None, None, None, "http://addr", "+41 3"),
                    !.photo = JImage(JStr("http://img/3"))],
      \* the number 1 as identifier
      [ZBase EXCEPT !.identifier = IdInt("1"), !.name = JStr("Number One")],
      \* a second place
      [ZBare EXCEPT !.identifier = IdStr("2"), !.category = <<"Parks & Gardens">>,
                    !.address = JStr("Main St 1")],
      [ZBase EXCEPT !.identifier = IdStr("2")],
      [ZBare EXCEPT !.identifier = IdStr("2"), !.geoCoordinates = NoGeo,
                    !.geo = Geo("47.40", "8.50"),
                    !.name = JNull, !.headline = JText(None, "Kunsthaus", None)],
      \* rejected: no identifier
      [ZBase EXCEPT !.identifier = IdInt("0")],
      \* rejected: no longitude, no coordinates at all
      [ZBase EXCEPT !.geoCoordinates = Geo("47.37", None), !.geo = Geo("47.40", "8.50")],
      [ZBase EXCEPT !.geoCoordinates = NoGeo],
      \* rejected: no name, empty names
      [ZBase EXCEPT !.name = JNull],
      [ZBase EXCEPT !.name = JStr(""), !.headline = JText(None, None, ""), !.title = ""] }

NoPlace == [id |-> None]
NoObject == [identifier |-> NoId]

\* z_hist: the objects the loop has stored or merged so far, in processing order
\* (the fetch order of lines 243-246, kept to compare it with other orders)

ZInit ==
    /\ places_by_id = [key \in {} |-> NoPlace]
    /\ z_order = <<>>
    /\ z_count = 0
    /\ z_last = [op |-> "none", obj |-> NoObject, before |-> NoPlace, prev |-> "none"]
    /\ z_pc = "loop"
    /\ z_output = <<>>
    /\ z_hist = <<>>

ZIdle ==
    /\ places_by_id = [key \in {} |-> NoPlace]
    /\ z_order = <<>>
    /\ z_count = 0
    /\ z_last = [op |-> "none", obj |-> NoObject, before |-> NoPlace, prev |-> "none"]
    /\ z_pc = "idle"
    /\ z_output = <<>>
    /\ z_hist = <<>>

\* one pass of the loop body that ends in a `continue`
ZSkip(obj) ==
    /\ z_pc = "loop"
    /\ z_count < MaxObjects
    /\ z_rejected(obj)
    /\ z_count' = z_count + 1
    /\ z_last' = [op |-> z_continue(obj), obj |-> obj, before |-> NoPlace, prev |-> z_last.op]
    /\ UNCHANGED <<places_by_id, z_order, z_pc, z_output, z_hist>>
    /\ UNCHANGED <<ovars, cvars, pvars>>

\* one pass of the loop body that takes the `identifier not in places_by_id` branch
ZInsert(obj) ==
    /\ z_pc = "loop"
    /\ z_count < MaxObjects
    /\ ~z_rejected(obj)
    /\ z_identifier(obj) \notin DOMAIN places_by_id
    /\ places_by_id' =
           [key \in DOMAIN places_by_id \cup {z_identifier(obj)} |->
               IF key = z_identifier(obj) THEN z_new_place(obj) ELSE places_by_id[key]]
    /\ z_order' = Append(z_order, z_identifier(obj))
    /\ z_count' = z_count + 1
    /\ z_last' = [op |-> "insert", obj |-> obj, before |-> NoPlace, prev |-> z_last.op]
    /\ z_hist' = Append(z_hist, obj)
    /\ UNCHANGED <<z_pc, z_output>>
    /\ UNCHANGED <<ovars, cvars, pvars>>

\* one pass of the loop body that takes the else branch
ZMerge(obj) ==
    /\ z_pc = "loop"
    /\ z_count < MaxObjects
    /\ ~z_rejected(obj)
    /\ z_identifier(obj) \in DOMAIN places_by_id
    /\ LET existing == places_by_id[z_identifier(obj)]
           tags == z_tags(z_category_names(obj))
       IN \E tag_list \in ListsOf(z_tag_union(existing.tags, tags)) :
              /\ places_by_id' =
                     [places_by_id EXCEPT ![z_identifier(obj)] = z_merged(existing, obj, tag_list)]
              /\ z_last' = [op |-> "merge", obj |-> obj, before |-> existing,
                            prev |-> z_last.op]
    /\ z_count' = z_count + 1
    /\ z_hist' = Append(z_hist, obj)
    /\ UNCHANGED <<z_order, z_pc, z_output>>
    /\ UNCHANGED <<ovars, cvars, pvars>>

\* json.dumps({"places": list(places_by_id.values())})
ZWrite ==
    /\ z_pc = "loop"
    /\ z_output' = [i \in 1..Len(z_order) |-> places_by_id[z_order[i]]]
    /\ z_pc' = "done"
    /\ UNCHANGED <<places_by_id, z_order, z_count, z_last, z_hist>>
    /\ UNCHANGED <<ovars, cvars, pvars>>

ZNext ==
    \/ \E obj \in ZurichObjects : ZSkip(obj)
    \/ \E obj \in ZurichObjects : ZInsert(obj)
    \/ \E obj \in ZurichObjects : ZMerge(obj)
    \/ ZWrite


-----------------------------------------------------------------------------
(* build_places_osm.py: tables                                             *)

CATEGORY_QUERIES_KEYS ==
    {"restaurant", "cafe", "bar", "museum", "market", "park", "viewpoint", "walk"}

O_CATEGORY_DEFAULTS ==
    [ restaurant |-> [indoorOutdoor |-> "indoor",  durationMins |-> 90, bestTimeOfDay |-> "night"],
      cafe       |-> [indoorOutdoor |-> "indoor",  durationMins |-> 60, bestTimeOfDay |-> "morning"],
      bar        |-> [indoorOutdoor |-> "indoor",  durationMins |-> 90, bestTimeOfDay |-> "night"],
      museum     |-> [indoorOutdoor |-> "indoor",  durationMins |-> 60, bestTimeOfDay |-> "afternoon"],
      market     |-> [indoorOutdoor |-> "indoor",  durationMins |-> 45, bestTimeOfDay |-> "morning"],
      park       |-> [indoorOutdoor |-> "outdoor", durationMins |-> 75, bestTimeOfDay |-> "afternoon"],
      viewpoint  |-> [indoorOutdoor |-> "outdoor", durationMins |-> 45, bestTimeOfDay |-> "sunset"],
      walk       |-> [indoorOutdoor |-> "outdoor", durationMins |-> 75, bestTimeOfDay |-> "afternoon"] ]

\* CUISINE_MAP.get(value)
CUISINE_MAP_get(value) ==
    CASE value \in {"mexican", "tex-mex", "latin_american", "latin-american"} -> "mexican"
      [] value = "italian" -> "italian"
      [] value \in {"sushi", "japanese"} -> "sushi"
      [] value \in {"asian", "thai", "vietnamese", "chinese", "korean"} -> "asian"
      [] value = "burger" -> "burger"
      [] value = "swiss" -> "swiss"
      [] value \in {"vegan", "vegetarian"} -> "vegan"
      [] value \in {"coffee", "cafe"} -> "coffee"
      [] value = "brunch" -> "brunch"
      [] OTHER -> None

CATEGORY_TAGS ==
    [ restaurant |-> <<>>,
      cafe       |-> <<"coffee">>,
      bar        |-> <<"beer", "cocktails">>,
      museum     |-> <<"historic">>,
      market     |-> <<"city">>,
      park       |-> <<"park", "green">>,
      viewpoint  |-> <<"view", "photo">>,
      walk       |-> <<"view", "photo", "street">> ]

-----------------------------------------------------------------------------
(* build_places_osm.py: helpers                                            *)

\* the characters of [a-zA-Z0-9], and the decimal digits
AlnumChars ==
    LET all == "abcdefghijklmnopqrstuvwxyzABCDEFGHIJKLMNOPQRSTUVWXYZ0123456789"
    IN {CharAt(all, i) : i \in 1..Len(all)}
DigitChars == {"0", "1", "2", "3", "4", "5", "6", "7", "8", "9"}

RECURSIVE SubNonAlnum(_, _)
\* re.sub(r"[^a-zA-Z0-9]+", "-", s); in_run: the previous character was replaced
SubNonAlnum(s, in_run) ==
    IF Len(s) = 0 THEN ""
    ELSE IF CharAt(s, 1) \in AlnumChars
         THEN CharAt(s, 1) \o SubNonAlnum(SubSeq(s, 2, Len(s)), FALSE)
         ELSE IF in_run THEN SubNonAlnum(SubSeq(s, 2, Len(s)), TRUE)
              ELSE "-" \o SubNonAlnum(SubSeq(s, 2, Len(s)), TRUE)

RECURSIVE LStripChar(_, _)
LStripChar(s, c) ==
    IF Len(s) > 0 /\ CharAt(s, 1) = c THEN LStripChar(SubSeq(s, 2, Len(s)), c) ELSE s

RECURSIVE RStripChar(_, _)
RStripChar(s, c) ==
    IF Len(s) > 0 /\ CharAt(s, Len(s)) = c THEN RStripChar(SubSeq(s, 1, Len(s) - 1), c)
    ELSE s

\* slugify
slugify(text) ==
    LET slug == RStripChar(LStripChar(SubNonAlnum(Lower(Strip(text)), FALSE), "-"), "-")
    IN IF slug # "" THEN slug ELSE "place"

\* str.isdigit()
isdigit(s) == Len(s) > 0 /\ \A i \in 1..Len(s) : CharAt(s, i) \in DigitChars

\* build_address
o_build_address(tags) ==
    LET cleaned == Present(<<tags.addr_street, tags.addr_housenumber,
                             tags.addr_postcode, tags.addr_city>>)
    IN IF cleaned = <<>> THEN None
       ELSE IF Len(cleaned) >= 2 /\ isdigit(cleaned[2])
            THEN Join(", ", <<cleaned[1] \o " " \o cleaned[2]>> \o SubSeq(cleaned, 3, Len(cleaned)))
            ELSE Join(", ", cleaned)

RECURSIVE SplitSep(_, _)
\* re.split(r"[;,]", s); cur: the piece being read
SplitSep(s, cur) ==
    IF Len(s) = 0 THEN <<cur>>
    ELSE IF CharAt(s, 1) \in {";", ","}
         THEN <<cur>> \o SplitSep(SubSeq(s, 2, Len(s)), "")
         ELSE SplitSep(SubSeq(s, 2, Len(s)), cur \o CharAt(s, 1))

RECURSIVE mapped_values(_)
\* the for loop of extract_cuisine_tags
mapped_values(values) ==
    IF values = <<>> THEN <<>>
    ELSE LET value == Strip(Head(values)) IN
         IF value = "" THEN mapped_values(Tail(values))
         ELSE IF Truthy(CUISINE_MAP_get(value))
              THEN <<CUISINE_MAP_get(value)>> \o mapped_values(Tail(values))
              ELSE mapped_values(Tail(values))

\* extract_cuisine_tags; tags.get("cuisine", "")
extract_cuisine_tags(tags) ==
    LET cuisine == IF tags.cuisine = None THEN "" ELSE tags.cuisine IN
    IF cuisine = "" THEN <<>>
    ELSE mapped_values(SplitSep(Lower(cuisine), ""))

\* a coordinate pair; a missing key is None (the elements hold no null number)
NoCenter == [lat |-> None, lon |-> None]
NoPair == <<>>

\* element_center: the pair (lat, lon), or NoPair for None
element_center(element) ==
    IF element.lat # None /\ element.lon # None THEN <<element.lat, element.lon>>
    ELSE IF element.center # NoCenter /\ element.center.lat # None /\ element.center.lon # None
         THEN <<element.center.lat, element.center.lon>>
    ELSE NoPair

\* clamp_tags
clamp_tags(tags) == SelectStr(tags, ALLOWED_TAGS)

\* combined_tags = clamp_tags(CATEGORY_TAGS.get(category, []) + cuisine_tags)
o_combined_tags(category, cuisine_tags) ==
    clamp_tags((IF category \in DOMAIN CATEGORY_TAGS THEN CATEGORY_TAGS[category] ELSE <<>>)
               \o cuisine_tags)

\* build_place: the place dict, or NoPlace for None
build_place(element, category) ==
    LET center == element_center(element)
        tags == element.tags
    IN IF center = NoPair THEN NoPlace
       ELSE IF ~Truthy(tags.name) THEN NoPlace
       ELSE [ id            |-> "osm-" \o element.type \o "-" \o element.id \o "-"
                                 \o slugify(tags.name),
              name          |-> tags.name,
              category      |-> category,
              lat           |-> center[1],
              lon           |-> center[2],
              tags          |-> o_combined_tags(category, extract_cuisine_tags(tags)),
              address       |-> o_build_address(tags),
              website       |-> Or(tags.website, tags.contact_website),
              phone         |-> Or(tags.phone, tags.contact_phone),
              mapsUrl       |-> maps_url(center[1], center[2]),
              indoorOutdoor |-> O_CATEGORY_DEFAULTS[category].indoorOutdoor,
              durationMins  |-> O_CATEGORY_DEFAULTS[category].durationMins,
              bestTimeOfDay |-> O_CATEGORY_DEFAULTS[category].bestTimeOfDay,
              description   |-> tags.description,
              area          |-> Or(tags.addr_suburb, tags.addr_neighbourhood) ]

\* the if/elif chain of build_places; None when no branch is taken
o_category(tags) ==
    IF tags.amenity = "restaurant" THEN "restaurant"
    ELSE IF tags.amenity = "cafe" THEN "cafe"
    ELSE IF tags.amenity \in {"bar", "pub"} THEN "bar"
    ELSE IF tags.tourism = "museum" THEN "museum"
    ELSE IF tags.amenity = "marketplace" THEN "market"
    ELSE IF tags.leisure = "park" THEN "park"
    ELSE IF tags.tourism = "viewpoint" THEN "viewpoint"
    ELSE IF tags.route \in {"hiking", "foot", "walking", "trail"} THEN "walk"
    ELSE None

\* o_cap_reached with > for >=
o_cap_exceeded(count, limit) == count > limit

\* per_category[category] >= limit_per_category
o_cap_reached(count, limit) == count >= limit


-----------------------------------------------------------------------------
(* Driver for category_from_type: inputs drawn in Init, applied by Classify *)

MaxLabels == 2
MaxTypes == 1

\* category labels as the Zurich catalogue spells them
Labels ==
    { "Hotels", "Concerts", "Gastronomy", "Coffee House", "Nightlife", "Museums",
      "Markets", "Parks & Gardens", "Panorama", "Hiking", "Boutiques", "Fitness",
      "Spa", "Landmarks", "Hotel Bar", "Zoo" }

\* lower-cased @type codes
TypeCodes ==
    { "restaurant", "cafeorcoffeeshop", "barorpub", "bar", "museum", "hotel",
      "lodgingbusiness", "hostel", "place" }

SeqsUpTo(S, n) == UNION {[1..k -> S] : k \in 0..n}

CInit ==
    /\ c_types \in SeqsUpTo(TypeCodes, MaxTypes)
    /\ c_categories \in SeqsUpTo(Labels, MaxLabels)
    /\ c_result = None
    /\ c_pc = "call"

CIdle ==
    /\ c_types = <<>>
    /\ c_categories = <<>>
    /\ c_result = None
    /\ c_pc = "idle"

Classify ==
    /\ c_pc = "call"
    /\ c_result' = category_from_type(c_types, c_categories)
    /\ c_pc' = "done"
    /\ UNCHANGED <<c_types, c_categories>>
    /\ UNCHANGED <<zvars, ovars, pvars>>


-----------------------------------------------------------------------------
(* build_places_osm.build_places: the element loop                         *)

MaxElements == 3
MaxLimit == 2

NoTags ==
    [ name |-> None, amenity |-> None, tourism |-> None, leisure |-> None, route |-> None,
      cuisine |-> None, addr_street |-> None, addr_housenumber |-> None,
      addr_postcode |-> None, addr_city |-> None, website |-> None,
      contact_website |-> None, phone |-> None, contact_phone |-> None,
      description |-> None, addr_suburb |-> None, addr_neighbourhood |-> None ]

Node(id, tags) ==
    [type |-> "node", id |-> id, lat |-> "47.370", lon |-> "8.545", center |-> NoCenter,
     tags |-> tags]

Centered(type, id, tags) ==
    [type |-> type, id |-> id, lat |-> None, lon |-> None,
     center |-> [lat |-> "47.380", lon |-> "8.530"], tags |-> tags]

\* the elements the Overpass answer may hold, in any order and repeatedly
OsmElements ==
    { Node("1", [NoTags EXCEPT !.amenity = "restaurant", !.name = "Kronenhalle",
                               !.cuisine = "vegetarian;thai"]),
      \* the same element again, with other details
      Node("1", [NoTags EXCEPT !.amenity = "restaurant", !.name = "kronenhalle!",
                               !.cuisine = "Italian", !.contact_website = "http://k",
                               !.phone = "+41 1", !.addr_street = "Raemistrasse",
                               !.addr_housenumber = "4", !.addr_postcode = "8001",
                               !.addr_city = "Zurich", !.description = "Classic",
                               !.addr_neighbourhood = "Hochschulen"]),
      Node("3", [NoTags EXCEPT !.amenity = "restaurant", !.name = "Thai 1",
                               !.cuisine = "thai, chinese;;sushi,pizza",
                               !.addr_housenumber = "7", !.addr_postcode = "8004"]),
      Node("4", [NoTags EXCEPT !.amenity = "restaurant", !.name = "!!!"]),
      Centered("way", "2", [NoTags EXCEPT !.amenity = "cafe", !.name = "Café & Bar!!",
                                         !.cuisine = "coffee", !.addr_street = "Limmatquai",
                                         !.addr_housenumber = "12a", !.addr_city = "Zurich",
                                         !.website = "http://c", !.contact_phone = "+41 2"]),
      Node("5", [NoTags EXCEPT !.amenity = "pub", !.name = "Pub", !.cuisine = "burger"]),
      Centered("relation", "6", [NoTags EXCEPT !.route = "hiking", !.name = "Uetliberg Trail"]),
      Node("7", [NoTags EXCEPT !.tourism = "museum", !.leisure = "park", !.name = "Kunsthaus"]),
      Node("8", [NoTags EXCEPT !.leisure = "park", !.name = "Platzspitz"]),
      Node("9", [NoTags EXCEPT !.tourism = "viewpoint", !.amenity = "marketplace",
                               !.name = "Lindenhof"]),
      Node("10", [NoTags EXCEPT !.tourism = "viewpoint", !.name = "Polyterrasse"]),
      \* no category
      Node("11", [NoTags EXCEPT !.name = "Bakery"]),
      \* no name, empty name
      Node("12", [NoTags EXCEPT !.amenity = "restaurant"]),
      Node("13", [NoTags EXCEPT !.amenity = "cafe", !.name = ""]),
      \* no coordinate pair
      [type |-> "way", id |-> "14", lat |-> None, lon |-> None, center |-> NoCenter,
       tags |-> [NoTags EXCEPT !.amenity = "restaurant", !.name = "Nowhere"]],
      [type |-> "way", id |-> "15", lat |-> "47.370", lon |-> None,
       center |-> [lat |-> "47.380", lon |-> None],
       tags |-> [NoTags EXCEPT !.amenity = "bar", !.name = "Half"]] }

NoElement == [type |-> None]

\* build_place is pure: its result for each element, computed once.
\* place = build_place(element, category), made only when a category was found
o_place ==
    [element \in OsmElements |->
        IF o_category(element.tags) = None THEN NoPlace
        ELSE build_place(element, o_category(element.tags))]

OInit ==
    /\ places = <<>>
    /\ seen = {}
    /\ per_category = [category \in CATEGORY_QUERIES_KEYS |-> 0]
    /\ limit_per_category \in 0..MaxLimit
    /\ o_count = 0
    /\ o_last = [op |-> "none", element |-> NoElement, category |-> None, count_before |-> 0,
                 prev |-> "none"]
    /\ o_pc = "loop"
    /\ o_output = <<>>

OIdle ==
    /\ places = <<>>
    /\ seen = {}
    /\ per_category = [category \in CATEGORY_QUERIES_KEYS |-> 0]
    /\ limit_per_category = 0
    /\ o_count = 0
    /\ o_last = [op |-> "none", element |-> NoElement, category |-> None, count_before |-> 0,
                 prev |-> "none"]
    /\ o_pc = "idle"
    /\ o_output = <<>>

\* what every pass of the loop body does to the loop bookkeeping
OPass(element, op) ==
    /\ o_pc = "loop"
    /\ o_count < MaxElements
    /\ o_count' = o_count + 1
    /\ o_last' = [op |-> op, element |-> element, category |-> o_category(element.tags),
                  count_before |-> IF o_category(element.tags) = None THEN 0
                                   ELSE per_category[o_category(element.tags)],
                  prev |-> o_last.op]
    /\ UNCHANGED <<limit_per_category, o_pc, o_output>>
    /\ UNCHANGED <<zvars, cvars, pvars>>

\* if not category: continue
ONoCategory(element) ==
    /\ o_category(element.tags) = None
    /\ OPass(element, "no_category")
    /\ UNCHANGED <<places, seen, per_category>>

\* if per_category[category] >= limit_per_category: continue
OCapped(element) ==
    /\ o_category(element.tags) # None
    /\ o_cap_reached(per_category[o_category(element.tags)], limit_per_category)
    /\ OPass(element, "capped")
    /\ UNCHANGED <<places, seen, per_category>>

\* place = build_place(element, category); if not place: continue
ORejected(element) ==
    /\ o_category(element.tags) # None
    /\ ~o_cap_reached(per_category[o_category(element.tags)], limit_per_category)
    /\ o_place[element] = NoPlace
    /\ OPass(element, "rejected")
    /\ UNCHANGED <<places, seen, per_category>>

\* if place["id"] in seen: continue
ODuplicate(element) ==
    /\ o_category(element.tags) # None
    /\ ~o_cap_reached(per_category[o_category(element.tags)], limit_per_category)
    /\ o_place[element] # NoPlace
    /\ o_place[element].id \in seen
    /\ OPass(element, "duplicate")
    /\ UNCHANGED <<places, seen, per_category>>

\* seen.add(place["id"]); places.append(place); per_category[category] += 1
OAccept(element) ==
    /\ o_category(element.tags) # None
    /\ ~o_cap_reached(per_category[o_category(element.tags)], limit_per_category)
    /\ LET place == o_place[element] IN
         /\ place # NoPlace
         /\ place.id \notin seen
         /\ seen' = seen \cup {place.id}
         /\ places' = Append(places, place)
         /\ per_category' = [per_category EXCEPT ![o_category(element.tags)] = @ + 1]
    /\ OPass(element, "accept")

\* return places
OReturn ==
    /\ o_pc = "loop"
    /\ o_output' = places
    /\ o_pc' = "done"
    /\ UNCHANGED <<places, seen, per_category, limit_per_category, o_count, o_last>>
    /\ UNCHANGED <<zvars, cvars, pvars>>

ONext ==
    \/ \E element \in OsmElements : ONoCategory(element)
    \/ \E element \in OsmElements : OCapped(element)
    \/ \E element \in OsmElements : ORejected(element)
    \/ \E element \in OsmElements : ODuplicate(element)
    \/ \E element \in OsmElements : OAccept(element)
    \/ OReturn

-----------------------------------------------------------------------------
(* enrich_places_wikidata.py: the knowledge source and the pure helpers    *)

\* place.get(field): None for an absent key
Get(place, field) == IF field \in DOMAIN place THEN place[field] ELSE None

\* place[field] = value
Put(place, field, value) ==
    [key \in DOMAIN place \cup {field} |-> IF key = field THEN value ELSE place[key]]

\* args.max_km, in metres
MaxKm == 2000

\* a claim whose datavalue is not a str, and a P625 value that is not a dict
NonStr == "<monolingualtext>"

\* the datavalue of a P625 entry: absent, not a dict, or a dict
NoP625 == [k |-> "absent"]
NonDict == [k |-> "str"]
Globe(latitude, longitude) == [k |-> "dict", latitude |-> latitude, longitude |-> longitude]

NoClaims ==
    [P625 |-> NoP625, P856 |-> None, P1329 |-> None, P969 |-> None, P6375 |-> None, P18 |-> None]

\* what wbgetentities answers for each id a search may return
Entities ==
    [ Q1 |-> [id |-> "Q1",
              claims |-> [P625 |-> Globe("47.375", "8.545"),
                          P856 |-> "https://q1.example", P1329 |-> "+41 44 253 84 84",
                          P969 |-> "Heimplatz 1", P6375 |-> "Heimplatz 1, 8001 Zurich",
                          P18 |-> "Q1.jpg"]],
      Q2 |-> [id |-> "Q2",
              claims |-> [NoClaims EXCEPT !.P625 = Globe("47.380", "8.530"),
                                          !.P856 = "https://q2.example", !.P1329 = NonStr,
                                          !.P6375 = "Limmatquai 2", !.P18 = "Missing.jpg"]],
      Q3 |-> [id |-> "Q3",
              claims |-> [P625 |-> Globe("47.415", "8.545"),
                          P856 |-> "https://q3.example", P1329 |-> "+41 44 3",
                          P969 |-> "Far 3", P6375 |-> None, P18 |-> "Q3.jpg"]],
      Q4 |-> [id |-> "Q4",
              claims |-> [NoClaims EXCEPT !.P625 = Globe(None, "8.545"),
                                          !.P856 = "https://q4.example"]],
      Q5 |-> [id |-> "Q5",
              claims |-> [NoClaims EXCEPT !.P856 = "https://q5.example", !.P969 = "",
                                          !.P18 = "Q5.jpg"]] ]

EntityIds == DOMAIN Entities

\* what the imageinfo query answers for each file name
ImageUrls ==
    [ Q1_jpg |-> "https://upload.example/Q1.jpg", Q3_jpg |-> "https://upload.example/Q3.jpg",
      Q5_jpg |-> "https://upload.example/Q5.jpg", Missing_jpg |-> None ]

\* get_image_url(file_name) once http_get has answered
get_image_url(file_name) ==
    IF file_name = "Q1.jpg" THEN ImageUrls.Q1_jpg
    ELSE IF file_name = "Q3.jpg" THEN ImageUrls.Q3_jpg
    ELSE IF file_name = "Q5.jpg" THEN ImageUrls.Q5_jpg
    ELSE ImageUrls.Missing_jpg

\* get_entity(entity_id) once http_get has answered
get_entity(entity_id) == Entities[entity_id]

\* get_claim_value(claims, pid): the value when it is a str, else None
get_claim_value(claims, pid) ==
    IF claims[pid] = None THEN None
    ELSE IF claims[pid] = NonStr THEN None
    ELSE claims[pid]

\* the None that get_coords returns
NoCoords == [k |-> "None"]

\* get_coords(claims) and the test `not coords or coords[0] is None or coords[1] is None`
get_coords(claims) ==
    IF claims.P625.k # "dict" THEN NoCoords
    ELSE claims.P625

coords_missing(coords) ==
    \/ coords = NoCoords
    \/ coords.latitude = None
    \/ coords.longitude = None

\* haversine_km(lat1, lon1, lat2, lon2) in metres, rounded, for the coordinates
\* that occur: the values the source's formula gives
haversine_km(lat1, lon1, lat2, lon2) ==
    LET from == <<lat1, lon1>>
        to == <<lat2, lon2>>
        A == <<"47.370", "8.545">>
        B == <<"47.380", "8.530">>
    IN IF from = to THEN 0
       ELSE IF from = A /\ to = <<"47.375", "8.545">> THEN 556
       ELSE IF from = A /\ to = B THEN 1585
       ELSE IF from = A /\ to = <<"47.415", "8.545">> THEN 5004
       ELSE IF from = B /\ to = <<"47.375", "8.545">> THEN 1259
       ELSE IF from = B /\ to = A THEN 1585
       ELSE IF from = B /\ to = <<"47.415", "8.545">> THEN 4052
       ELSE 20000

\* best_entity's loop body without the test `dist > max_km`
best_entity_step_any_distance(place, entity_id, best, best_dist, max_km) ==
    LET entity == Entities[entity_id]
        coords == get_coords(entity.claims)
        dist == haversine_km(place.lat, place.lon, coords.latitude, coords.longitude)
    IN IF coords_missing(coords) THEN <<best, best_dist>>
       ELSE IF best = None \/ dist < best_dist THEN <<entity_id, dist>>
       ELSE <<best, best_dist>>

\* the loop body of best_entity for one candidate: the new (best, best_dist).
\* best and best_dist are assigned together, so `best_dist is None` is
\* `best = None`; best_dist is kept as 0 until then.
best_entity_step(place, entity_id, best, best_dist, max_km) ==
    LET entity == get_entity(entity_id)
        coords == get_coords(entity.claims)
        dist == haversine_km(place.lat, place.lon, coords.latitude, coords.longitude)
    IN IF coords_missing(coords) THEN <<best, best_dist>>
       ELSE IF dist > max_km THEN <<best, best_dist>>
       ELSE IF best = None \/ dist < best_dist THEN <<entity_id, dist>>
       ELSE <<best, best_dist>>

\* needs computed without the `not`: any(place.get(field) for field in (...))
e_needs_any_present(place) ==
    \E field \in {"photoUrl", "address", "website", "phone"} : Truthy(Get(place, field))

\* needs = any(not place.get(field) for field in ("photoUrl", "address", "website", "phone"))
e_needs(place) ==
    \E field \in {"photoUrl", "address", "website", "phone"} : ~Truthy(Get(place, field))

\* the fill of one field that ignores the existing value
e_fill_field_always(place, field, value) ==
    IF Truthy(value) THEN Put(place, field, value) ELSE place

\* if not place.get(field): if value: place[field] = value
e_fill_field(place, field, value) ==
    IF ~Truthy(Get(place, field)) /\ Truthy(value) THEN Put(place, field, value) ELSE place

\* lines 153-169: website, phone and address filled from the claims
e_fill_claims(place, claims) ==
    LET with_website == e_fill_field(place, "website", get_claim_value(claims, "P856"))
        with_phone == e_fill_field(with_website, "phone", get_claim_value(claims, "P1329"))
    IN e_fill_field(with_phone, "address",
                    Or(get_claim_value(claims, "P969"), get_claim_value(claims, "P6375")))

\* lines 171-173: the image file name to resolve, None when no lookup is made
e_image_wanted(place, claims) ==
    IF ~Truthy(Get(place, "photoUrl")) /\ Truthy(get_claim_value(claims, "P18"))
    THEN get_claim_value(claims, "P18") ELSE None

\* http_get with retries = 3 on the status codes of the successive attempts:
\* TRUE when it returns the body, FALSE when it raises
RECURSIVE http_get(_, _)
http_get(codes, attempt) ==
    IF attempt >= 3 THEN FALSE
    ELSE IF codes[attempt + 1] = "200" THEN TRUE
    ELSE IF codes[attempt + 1] = "429" /\ attempt < 3 - 1 THEN http_get(codes, attempt + 1)
    ELSE FALSE

StatusCodes == {"200", "429", "500"}

\* whether some / every run of attempts makes http_get raise
HttpAnswers == {http_get(codes, 0) : codes \in [1..3 -> StatusCodes]}

-----------------------------------------------------------------------------
(* enrich_places_wikidata.main: the place loop and the calls of enrich_place *)

MaxPlaces == 2
MaxCandidates == 2
MaxScanLimit == 2

EBase ==
    [ id |-> "osm-node-7-kunsthaus", name |-> "Kunsthaus", category |-> "museum",
      lat |-> "47.370", lon |-> "8.545", tags |-> <<"city">>,
      address |-> None, website |-> None, phone |-> None, photoUrl |-> None ]

\* the places a persisted dataset may hold
EPlaces ==
    { \* all four fields present
      [EBase EXCEPT !.id = "zurich-1", !.name = "Kronenhalle", !.category = "restaurant",
                    !.address = "Raemistrasse 4", !.website = "http://old",
                    !.phone = "+41 1", !.photoUrl = "http://photo"],
      \* all four fields null
      EBase,
      \* some present, one empty, one null
      [EBase EXCEPT !.id = "zurich-2", !.lat = "47.380", !.lon = "8.530",
                    !.address = "", !.website = "http://old", !.photoUrl = "http://photo"],
      \* the four keys absent
      [id |-> "custom-3", name |-> "Kunsthaus", lat |-> "47.370", lon |-> "8.545"] }

\* what json.loads(input_path.read_text()) may yield
EDocuments ==
    {[shape |-> "places", places |-> dataset] : dataset \in SeqsUpTo(EPlaces, MaxPlaces)}
        \cup {[shape |-> "object_without_places"], [shape |-> "array"]}

NoCall ==
    [index |-> 0, before |-> NoPlace, lookups |-> <<>>, candidates |-> <<>>, next |-> 0,
     best |-> None, best_dist |-> 0, image |-> None]

NoReturn ==
    [op |-> "none", index |-> 0, before |-> NoPlace, lookups |-> <<>>, candidates |-> <<>>,
     best |-> None, result |-> FALSE]

NoDocument == [shape |-> None]

EInit ==
    /\ e_input \in EDocuments
    /\ e_places = <<>>
    /\ e_world = [name \in {} |-> <<>>]
    /\ e_limit \in 0..MaxScanLimit
    /\ e_scanned = 0
    /\ e_updated = 0
    /\ e_call = NoCall
    /\ e_last = NoReturn
    /\ e_pc = "load"
    /\ e_output = NoDocument
    /\ e_round = 1
    /\ e_first = NoDocument

EIdle ==
    /\ e_input = NoDocument
    /\ e_places = <<>>
    /\ e_world = [name \in {} |-> <<>>]
    /\ e_limit = 0
    /\ e_scanned = 0
    /\ e_updated = 0
    /\ e_call = NoCall
    /\ e_last = NoReturn
    /\ e_pc = "idle"
    /\ e_output = NoDocument
    /\ e_round = 0
    /\ e_first = NoDocument

\* data = json.loads(...); places = data.get("places", [])
ELoad ==
    /\ e_pc = "load"
    /\ e_input.shape # "array"
    /\ e_places' = IF e_input.shape = "places" THEN e_input.places ELSE <<>>
    /\ e_pc' = "loop"
    /\ UNCHANGED <<e_input, e_world, e_limit, e_scanned, e_updated, e_call, e_last, e_output,
                   e_round, e_first>>
    /\ UNCHANGED <<cvars, zvars, ovars, mvars, qvars>>

\* data.get on a document that is not an object raises
ELoadRaises ==
    /\ e_pc = "load"
    /\ e_input.shape = "array"
    /\ e_pc' = "crashed"
    /\ UNCHANGED <<e_input, e_places, e_world, e_limit, e_scanned, e_updated, e_call, e_last,
                   e_output, e_round, e_first>>
    /\ UNCHANGED <<cvars, zvars, ovars, mvars, qvars>>

\* the loop reaches a place: not exhausted and `scanned >= args.limit` is false
e_in_loop ==
    /\ e_pc = "loop"
    /\ e_scanned < Len(e_places)
    /\ ~(e_scanned >= e_limit)

e_place == e_places[e_scanned + 1]

\* enrich_place returns `result` to main: if result: updated += 1; scanned += 1
EReturn(op, call, result) ==
    /\ e_last' = [op |-> op, index |-> call.index, before |-> call.before,
                  lookups |-> call.lookups, candidates |-> call.candidates,
                  best |-> call.best, result |-> result]
    /\ e_updated' = IF result THEN e_updated + 1 ELSE e_updated
    /\ e_scanned' = e_scanned + 1
    /\ e_call' = NoCall
    /\ e_pc' = "loop"
    /\ UNCHANGED <<e_input, e_limit, e_output, e_round, e_first>>
    /\ UNCHANGED <<cvars, zvars, ovars, mvars, qvars>>

\* enrich_place: `if not needs: return False`
EComplete ==
    /\ e_in_loop
    /\ ~e_needs(e_place)
    /\ EReturn("complete", [NoCall EXCEPT !.index = e_scanned + 1, !.before = e_place], FALSE)
    /\ UNCHANGED <<e_places, e_world>>

\* the answer of search_wikidata for a name: the same on every call of a run
e_answers(name) ==
    IF name \in DOMAIN e_world THEN {e_world[name]}
    ELSE SeqsUpTo(EntityIds, MaxCandidates)

\* enrich_place: search_wikidata answers with no candidate: return False
ESearchEmpty ==
    /\ e_in_loop
    /\ e_needs(e_place)
    /\ TRUE \in HttpAnswers
    /\ <<>> \in e_answers(e_place.name)
    /\ e_world' = Put(e_world, e_place.name, <<>>)
    /\ EReturn("no_candidates",
               [NoCall EXCEPT !.index = e_scanned + 1, !.before = e_place,
                              !.lookups = <<"search_wikidata">>], FALSE)
    /\ UNCHANGED <<e_places>>

\* enrich_place: search_wikidata answers with candidates; best_entity starts
ESearch(candidates) ==
    /\ e_in_loop
    /\ e_needs(e_place)
    /\ TRUE \in HttpAnswers
    /\ candidates \in e_answers(e_place.name)
    /\ candidates # <<>>
    /\ e_world' = Put(e_world, e_place.name, candidates)
    /\ e_call' = [NoCall EXCEPT !.index = e_scanned + 1, !.before = e_place,
                                !.lookups = <<"search_wikidata">>,
                                !.candidates = candidates, !.next = 1]
    /\ e_pc' = "entity"
    /\ UNCHANGED <<e_input, e_places, e_limit, e_scanned, e_updated, e_last, e_output,
                   e_round, e_first>>
    /\ UNCHANGED <<cvars, zvars, ovars, mvars, qvars>>

\* the call once get_entity has answered for the candidate at hand
e_after_entity ==
    LET step == best_entity_step(e_place, e_call.candidates[e_call.next], e_call.best,
                                 e_call.best_dist, MaxKm)
    IN [e_call EXCEPT !.lookups = Append(@, "get_entity"), !.best = step[1],
                      !.best_dist = step[2], !.next = @ + 1]

\* best_entity: get_entity answers for a candidate that is not the last
EGetEntity ==
    /\ e_pc = "entity"
    /\ TRUE \in HttpAnswers
    /\ e_call.next < Len(e_call.candidates)
    /\ e_call' = e_after_entity
    /\ UNCHANGED <<e_input, e_places, e_world, e_limit, e_scanned, e_updated, e_last, e_pc,
                   e_output, e_round, e_first>>
    /\ UNCHANGED <<cvars, zvars, ovars, mvars, qvars>>

\* the last candidate is answered and best_entity returns None: return False
ENoEntity ==
    /\ e_pc = "entity"
    /\ TRUE \in HttpAnswers
    /\ e_call.next = Len(e_call.candidates)
    /\ e_after_entity.best = None
    /\ EReturn("no_entity", e_after_entity, FALSE)
    /\ UNCHANGED <<e_places, e_world>>

\* the last candidate is answered and best_entity returns an entity: website,
\* phone and address are filled; then get_image_url is called, or updated returned
EFill ==
    /\ e_pc = "entity"
    /\ TRUE \in HttpAnswers
    /\ e_call.next = Len(e_call.candidates)
    /\ e_after_entity.best # None
    /\ LET claims == get_entity(e_after_entity.best).claims
           filled == e_fill_claims(e_place, claims)
           image == e_image_wanted(e_place, claims)
       IN /\ e_places' = [e_places EXCEPT ![e_scanned + 1] = filled]
          /\ IF image = None
             THEN EReturn("filled", e_after_entity, filled # e_place)
             ELSE /\ e_call' = [e_after_entity EXCEPT !.image = image]
                  /\ e_pc' = "image"
                  /\ UNCHANGED <<e_input, e_limit, e_scanned, e_updated, e_last, e_output,
                                 e_round, e_first>>
                  /\ UNCHANGED <<cvars, zvars, ovars, mvars, qvars>>
    /\ UNCHANGED e_world

\* get_image_url answers: `if image_url: place["photoUrl"] = image_url`; return updated
EImage ==
    /\ e_pc = "image"
    /\ TRUE \in HttpAnswers
    /\ LET after == e_fill_field(e_place, "photoUrl", get_image_url(e_call.image))
       IN /\ e_places' = [e_places EXCEPT ![e_scanned + 1] = after]
          /\ EReturn("image", [e_call EXCEPT !.lookups = Append(@, "get_image_url")],
                     after # e_call.before)
    /\ UNCHANGED e_world

\* http_get raises inside search_wikidata, get_entity or get_image_url: nothing
\* in enrich_place or main catches it
ELookupRaises ==
    /\ \/ e_in_loop /\ e_needs(e_place)
       \/ e_pc \in {"entity", "image"}
    /\ FALSE \in HttpAnswers
    /\ e_call' = IF e_pc = "loop"
                 THEN [NoCall EXCEPT !.index = e_scanned + 1, !.before = e_place]
                 ELSE e_call
    /\ e_pc' = "crashed"
    /\ UNCHANGED <<e_input, e_places, e_world, e_limit, e_scanned, e_updated, e_last,
                   e_output, e_round, e_first>>
    /\ UNCHANGED <<cvars, zvars, ovars, mvars, qvars>>

\* the loop ends (exhausted or break): output_path.write_text(json.dumps({"places": places}))
EWrite ==
    /\ e_pc = "loop"
    /\ ~e_in_loop
    /\ e_output' = [shape |-> "places", places |-> e_places]
    /\ e_first' = IF e_round = 1 THEN [shape |-> "places", places |-> e_places] ELSE e_first
    /\ e_pc' = "done"
    /\ UNCHANGED <<e_input, e_places, e_world, e_limit, e_scanned, e_updated, e_call, e_last,
                   e_round>>
    /\ UNCHANGED <<cvars, zvars, ovars, mvars, qvars>>

\* the script is run again on the file it wrote (--input and --output name the same file)
ERerun ==
    /\ e_pc = "done"
    /\ e_round = 1
    /\ e_input' = e_output
    /\ e_round' = 2
    /\ e_places' = <<>>
    /\ e_scanned' = 0
    /\ e_updated' = 0
    /\ e_last' = NoReturn
    /\ e_output' = NoDocument
    /\ e_pc' = "load"
    /\ UNCHANGED <<e_world, e_limit, e_call, e_first>>
    /\ UNCHANGED <<cvars, zvars, ovars, mvars, qvars>>

ENext ==
    \/ ELoad
    \/ ELoadRaises
    \/ EComplete
    \/ ESearchEmpty
    \/ \E candidates \in SeqsUpTo(EntityIds, MaxCandidates) : ESearch(candidates)
    \/ EGetEntity
    \/ ENoEntity
    \/ EFill
    \/ EImage
    \/ ELookupRaises
    \/ EWrite
    \/ ERerun

-----------------------------------------------------------------------------
(* generate_descriptions_batch.py and embed_places_openai_batch.py:         *)
(* the lines of a results file and what merge_results reads from them       *)

\* an absent key or a JSON null, an empty object, and an object
NoBody == [k |-> "None"]
EmptyBody == [k |-> "empty"]

\* a /v1/responses body
TextBody(output_text, output, choices) ==
    [k |-> "dict", output_text |-> output_text, output |-> output, choices |-> choices,
     data |-> <<>>]

\* a /v1/embeddings body
DataBody(data) ==
    [k |-> "dict", output_text |-> None, output |-> <<>>, choices |-> None, data |-> data]

Message(content) == [type |-> "message", content |-> content]
Reasoning == [type |-> "reasoning", content |-> <<>>]
Content(type, text) == [type |-> type, text |-> text]

\* one line of the results file; response is the value of record["response"]
\* when it is a dict, body the value of record["body"]
Line(custom_id, response_body, body) ==
    [blank |-> FALSE, custom_id |-> custom_id, response |-> response_body, body |-> body]

NoResponse == [k |-> "not a dict"]
Response(body) == [k |-> "dict", body |-> body]

BlankLine == [blank |-> TRUE, custom_id |-> None, response |-> NoResponse, body |-> NoBody]

\* the first text of the first message item that has one, None when there is none
RECURSIVE content_text(_)
content_text(content) ==
    IF content = <<>> THEN None
    ELSE IF Head(content).type \in {"output_text", "text"} /\ Truthy(Head(content).text)
         THEN Head(content).text
         ELSE content_text(Tail(content))

RECURSIVE output_text_of(_)
output_text_of(output) ==
    IF output = <<>> THEN None
    ELSE IF Head(output).type = "message" /\ content_text(Head(output).content) # None
         THEN content_text(Head(output).content)
         ELSE output_text_of(Tail(output))

\* extract_text_from_response(body)
extract_text_from_response(body) ==
    IF Truthy(body.output_text) THEN body.output_text
    ELSE IF output_text_of(body.output) # None THEN output_text_of(body.output)
    ELSE body.choices

\* extract_embedding_from_response(body): None is the empty vector here, both
\* fail the test `if embedding`
extract_embedding_from_response(body) ==
    IF body.data # <<>> THEN body.data[1].embedding ELSE <<>>

\* lines 175-180 / 157-162: the body merge_results takes from a record
m_body(record) ==
    LET body == IF record.response.k = "dict" THEN record.response.body ELSE NoBody
    IN IF body.k = "None" THEN record.body ELSE body

\* place_map = {place["id"]: place for place in places}: the last place of each id
place_map(dataset, custom_id) ==
    LET holders == {i \in 1..Len(dataset) : dataset[i].id = custom_id}
    IN IF holders = {} THEN 0 ELSE CHOOSE i \in holders : \A j \in holders : j <= i

\* `if not line.strip(): continue` and `if not custom_id or not body: continue`
m_line_skipped(record) ==
    \/ record.blank
    \/ ~Truthy(record.custom_id)
    \/ m_body(record).k \in {"None", "empty"}

\* the value stored for a description, without the strip
d_value_unstripped(record) ==
    LET text == extract_text_from_response(m_body(record))
    IN IF Truthy(text) THEN text ELSE None

\* text.strip() when `text` is true, None when no text is attached
d_value(record) ==
    LET text == extract_text_from_response(m_body(record))
    IN IF Truthy(text) THEN Strip(text) ELSE None

\* the embedding to attach, <<>> when none is
b_value(record) == extract_embedding_from_response(m_body(record))

\* the field merge_results writes
m_field(kind) == IF kind = "descriptions" THEN "aiDescription" ELSE "embedding"

\* whether a line attaches a value (to a place that exists)
m_attaches(kind, dataset, record) ==
    /\ ~m_line_skipped(record)
    /\ IF kind = "descriptions" THEN d_value(record) # None ELSE b_value(record) # <<>>
    /\ place_map(dataset, record.custom_id) # 0

\* the loop body with the value added to what the place holds
m_apply_appending(kind, dataset, record) ==
    IF ~m_attaches(kind, dataset, record) THEN dataset
    ELSE LET place == dataset[place_map(dataset, record.custom_id)]
         IN [dataset EXCEPT ![place_map(dataset, record.custom_id)] =
                Put(@, m_field(kind),
                    IF kind = "descriptions"
                    THEN Or(Get(place, "aiDescription"), "") \o d_value(record)
                    ELSE (IF "embedding" \in DOMAIN place THEN place.embedding ELSE <<>>)
                             \o b_value(record))]

\* the dataset after the loop body for one line
m_apply(kind, dataset, record) ==
    IF ~m_attaches(kind, dataset, record) THEN dataset
    ELSE [dataset EXCEPT ![place_map(dataset, record.custom_id)] =
             Put(@, m_field(kind),
                 IF kind = "descriptions" THEN d_value(record) ELSE b_value(record))]

-----------------------------------------------------------------------------
(* merge_results of both batch scripts: load, one pass per line, write     *)

MaxResults == 2

\* the places a persisted dataset may hold when a merge runs
MPlaces ==
    { [id |-> "zurich-1", name |-> "Kronenhalle", category |-> "restaurant",
       tags |-> <<"swiss", "wine">>, description |-> "Classic brasserie"],
      \* the id again, on another place: what the Zurich build writes for the
      \* identifiers "1" and 1
      [id |-> "zurich-1", name |-> "Kronenhalle Bar", category |-> "bar",
       tags |-> <<>>, description |-> None],
      \* a place that already went through both merges
      [id |-> "osm-way-2-caf-bar", name |-> "Cafe Bar", category |-> "cafe",
       tags |-> <<"coffee">>, description |-> None, aiDescription |-> "Old text.",
       embedding |-> <<"0.1", "0.2">>] }

MDocuments ==
    {[shape |-> "places", places |-> dataset] : dataset \in SeqsUpTo(MPlaces, MaxPlaces)}
        \cup {[shape |-> "object_without_places"], [shape |-> "array"]}

\* the lines a results file of the description batch may hold
DLines ==
    { Line("zurich-1", Response(TextBody(" A grand brasserie. ", <<>>, None)), NoBody),
      Line("zurich-1",
           Response(TextBody(None, <<Reasoning,
                                     Message(<<Content("refusal", "No."),
                                               Content("output_text", "Art on every wall.")>>)>>,
                             None)), NoBody),
      Line("osm-way-2-caf-bar", NoResponse, TextBody("", <<>>, "Coffee by the river.")),
      Line("zurich-1", Response(TextBody("  ", <<>>, None)), NoBody),
      Line("unknown-9", Response(TextBody("Nobody is here.", <<>>, None)), NoBody),
      \* a failed request, a line without id, an empty answer
      Line("zurich-1", NoResponse, NoBody),
      Line(None, Response(TextBody("No id.", <<>>, None)), NoBody),
      Line("osm-way-2-caf-bar", Response(EmptyBody), NoBody),
      Line("osm-way-2-caf-bar", Response(TextBody("", <<Reasoning>>, None)), NoBody),
      BlankLine }

\* the lines a results file of the embedding batch may hold
BLines ==
    { Line("zurich-1", Response(DataBody(<<[embedding |-> <<"0.3", "0.4">>]>>)), NoBody),
      Line("zurich-1", NoResponse, DataBody(<<[embedding |-> <<"0.5", "0.6">>],
                                              [embedding |-> <<"0.7", "0.8">>]>>)),
      Line("osm-way-2-caf-bar", Response(DataBody(<<[embedding |-> <<"0.9", "1.0">>]>>)),
           NoBody),
      Line("unknown-9", Response(DataBody(<<[embedding |-> <<"0.3", "0.4">>]>>)), NoBody),
      Line("zurich-1", Response(DataBody(<<>>)), NoBody),
      Line("zurich-1", Response(DataBody(<<[embedding |-> <<>>]>>)), NoBody),
      BlankLine }

MInit ==
    /\ m_kind \in {"descriptions", "embeddings"}
    /\ m_input \in MDocuments
    /\ m_results \in SeqsUpTo(IF m_kind = "descriptions" THEN DLines ELSE BLines, MaxResults)
    /\ m_places = <<>>
    /\ m_next = 1
    /\ m_pc = "load"
    /\ m_output = NoDocument
    /\ m_round = 1
    /\ m_first = NoDocument

MIdle ==
    /\ m_kind = None
    /\ m_input = NoDocument
    /\ m_results = <<>>
    /\ m_places = <<>>
    /\ m_next = 1
    /\ m_pc = "idle"
    /\ m_output = NoDocument
    /\ m_round = 0
    /\ m_first = NoDocument

\* payload = json.loads(...); places = payload["places"]; place_map = {...}
MLoad ==
    /\ m_pc = "load"
    /\ m_input.shape = "places"
    /\ m_places' = m_input.places
    /\ m_pc' = "lines"
    /\ UNCHANGED <<m_kind, m_input, m_results, m_next, m_output, m_round, m_first>>
    /\ UNCHANGED <<cvars, zvars, ovars, evars, qvars>>

\* payload["places"] raises: KeyError on an object, TypeError on an array
MLoadRaises ==
    /\ m_pc = "load"
    /\ m_input.shape # "places"
    /\ m_pc' = "crashed"
    /\ UNCHANGED <<m_kind, m_input, m_results, m_places, m_next, m_output, m_round, m_first>>
    /\ UNCHANGED <<cvars, zvars, ovars, evars, qvars>>

\* one pass of the loop over the lines that ends in a `continue` or attaches nothing
MSkipLine ==
    /\ m_pc = "lines"
    /\ m_next <= Len(m_results)
    /\ ~m_attaches(m_kind, m_places, m_results[m_next])
    /\ m_next' = m_next + 1
    /\ UNCHANGED <<m_kind, m_input, m_results, m_places, m_pc, m_output, m_round, m_first>>
    /\ UNCHANGED <<cvars, zvars, ovars, evars, qvars>>

\* generate_descriptions_batch: place_map[custom_id]["aiDescription"] = text.strip()
MAttachDescription ==
    /\ m_pc = "lines"
    /\ m_kind = "descriptions"
    /\ m_next <= Len(m_results)
    /\ m_attaches(m_kind, m_places, m_results[m_next])
    /\ m_places' = m_apply(m_kind, m_places, m_results[m_next])
    /\ m_next' = m_next + 1
    /\ UNCHANGED <<m_kind, m_input, m_results, m_pc, m_output, m_round, m_first>>
    /\ UNCHANGED <<cvars, zvars, ovars, evars, qvars>>

\* embed_places_openai_batch: place_map[custom_id]["embedding"] = embedding
MAttachEmbedding ==
    /\ m_pc = "lines"
    /\ m_kind = "embeddings"
    /\ m_next <= Len(m_results)
    /\ m_attaches(m_kind, m_places, m_results[m_next])
    /\ m_places' = m_apply(m_kind, m_places, m_results[m_next])
    /\ m_next' = m_next + 1
    /\ UNCHANGED <<m_kind, m_input, m_results, m_pc, m_output, m_round, m_first>>
    /\ UNCHANGED <<cvars, zvars, ovars, evars, qvars>>

\* output_path.write_text(json.dumps(payload))
MWrite ==
    /\ m_pc = "lines"
    /\ m_next > Len(m_results)
    /\ m_output' = [shape |-> "places", places |-> m_places]
    /\ m_first' = IF m_round = 1 THEN [shape |-> "places", places |-> m_places] ELSE m_first
    /\ m_pc' = "done"
    /\ UNCHANGED <<m_kind, m_input, m_results, m_places, m_next, m_round>>
    /\ UNCHANGED <<cvars, zvars, ovars, evars, qvars>>

\* merge is run again with the same results file on the dataset it wrote
MRerun ==
    /\ m_pc = "done"
    /\ m_round = 1
    /\ m_input' = m_output
    /\ m_round' = 2
    /\ m_places' = <<>>
    /\ m_next' = 1
    /\ m_output' = NoDocument
    /\ m_pc' = "load"
    /\ UNCHANGED <<m_kind, m_results, m_first>>
    /\ UNCHANGED <<cvars, zvars, ovars, evars, qvars>>

MNext ==
    \/ MLoad
    \/ MLoadRaises
    \/ MSkipLine
    \/ MAttachDescription
    \/ MAttachEmbedding
    \/ MWrite
    \/ MRerun

-----------------------------------------------------------------------------
(* embed_places_qwen.py: the local embedding pass                          *)

\* build_description(place)
build_description(place) ==
    LET name == IF "name" \in DOMAIN place THEN place.name ELSE ""
        category == IF "category" \in DOMAIN place THEN place.category ELSE ""
        tags == Join(", ", IF "tags" \in DOMAIN place THEN place.tags ELSE <<>>)
        desc == Or(Get(place, "aiDescription"),
                   IF "description" \in DOMAIN place THEN place.description ELSE "")
    IN Join(" | ", Present(<<name, category, tags, desc>>))

\* embed_text(tokenizer, model, text, device): the vector the model gives the
\* text, the same for the same text
embed_text(text) == <<"embedding of", text>>

\* lines 60-63: place["aiDescription"] = ai_description; place["embedding"] = embedding
q_embedded(place) ==
    Put(Put(place, "aiDescription", build_description(place)),
        "embedding", embed_text(build_description(place)))

QInit ==
    /\ q_input \in MDocuments
    /\ q_places = <<>>
    /\ q_next = 1
    /\ q_pc = "load"
    /\ q_output = NoDocument
    /\ q_round = 1
    /\ q_first = NoDocument

QIdle ==
    /\ q_input = NoDocument
    /\ q_places = <<>>
    /\ q_next = 1
    /\ q_pc = "idle"
    /\ q_output = NoDocument
    /\ q_round = 0
    /\ q_first = NoDocument

\* payload = json.loads(...); places = payload["places"]
QLoad ==
    /\ q_pc = "load"
    /\ q_input.shape = "places"
    /\ q_places' = q_input.places
    /\ q_pc' = "places"
    /\ UNCHANGED <<q_input, q_next, q_output, q_round, q_first>>
    /\ UNCHANGED <<cvars, zvars, ovars, evars, mvars>>

\* payload["places"] raises
QLoadRaises ==
    /\ q_pc = "load"
    /\ q_input.shape # "places"
    /\ q_pc' = "crashed"
    /\ UNCHANGED <<q_input, q_places, q_next, q_output, q_round, q_first>>
    /\ UNCHANGED <<cvars, zvars, ovars, evars, mvars>>

\* one pass of `for place in places`
QEmbed ==
    /\ q_pc = "places"
    /\ q_next <= Len(q_places)
    /\ q_places' = [q_places EXCEPT ![q_next] = q_embedded(@)]
    /\ q_next' = q_next + 1
    /\ UNCHANGED <<q_input, q_pc, q_output, q_round, q_first>>
    /\ UNCHANGED <<cvars, zvars, ovars, evars, mvars>>

\* output_path.write_text(json.dumps(payload))
QWrite ==
    /\ q_pc = "places"
    /\ q_next > Len(q_places)
    /\ q_output' = [shape |-> "places", places |-> q_places]
    /\ q_first' = IF q_round = 1 THEN [shape |-> "places", places |-> q_places] ELSE q_first
    /\ q_pc' = "done"
    /\ UNCHANGED <<q_input, q_places, q_next, q_round>>
    /\ UNCHANGED <<cvars, zvars, ovars, evars, mvars>>

\* the script is run again on the dataset it wrote
QRerun ==
    /\ q_pc = "done"
    /\ q_round = 1
    /\ q_input' = q_output
    /\ q_round' = 2
    /\ q_places' = <<>>
    /\ q_next' = 1
    /\ q_output' = NoDocument
    /\ q_pc' = "load"
    /\ UNCHANGED <<q_first>>
    /\ UNCHANGED <<cvars, zvars, ovars, evars, mvars>>

QNext ==
    \/ QLoad
    \/ QLoadRaises
    \/ QEmbed
    \/ QWrite
    \/ QRerun

-----------------------------------------------------------------------------
(* Specifications                                                          *)

\* no pass over a persisted dataset runs
PIdle == EIdle /\ MIdle /\ QIdle

\* category_from_type on drawn inputs
CategoryInit == CInit /\ ZIdle /\ OIdle /\ PIdle

CNext == Classify

SpecCategory == CategoryInit /\ [][CNext]_vars

\* a run of build_places_zurich_api.main
ZurichInit == ZInit /\ OIdle /\ CIdle /\ PIdle

SpecZurich == ZurichInit /\ [][ZNext]_vars

\* a run of build_places_osm.build_places
OsmInit == OInit /\ ZIdle /\ CIdle /\ PIdle

SpecOSM == OsmInit /\ [][ONext]_vars

\* a run of enrich_places_wikidata.main, and a second run on what it wrote
EnrichInit == EInit /\ MIdle /\ QIdle /\ CIdle /\ ZIdle /\ OIdle

SpecEnrich == EnrichInit /\ [][ENext]_vars

\* a merge of batch results, and a second merge of the same results
MergeInit == MInit /\ EIdle /\ QIdle /\ CIdle /\ ZIdle /\ OIdle

SpecMerge == MergeInit /\ [][MNext]_vars

\* a run of embed_places_qwen.main, and a second run on what it wrote
QwenInit == QInit /\ EIdle /\ MIdle /\ CIdle /\ ZIdle /\ OIdle

SpecQwen == QwenInit /\ [][QNext]_vars

\* a run of either pass that attaches embeddings
EmbedInit == MergeInit \/ QwenInit

EmbedNext == MNext \/ QNext

SpecEmbed == EmbedInit /\ [][EmbedNext]_vars

\* a run, and a second run, of the field-fill pass or of a batch merge
PassesInit == EnrichInit \/ MergeInit

PassesNext == ENext \/ MNext

SpecPasses == PassesInit /\ [][PassesNext]_vars

\* a run of either first-pass build
BuildInit == ZurichInit \/ OsmInit

BuildNext == ZNext \/ ONext

SpecBuild == BuildInit /\ [][BuildNext]_vars

-----------------------------------------------------------------------------
(* Properties of the Zurich merge                                          *)

ScalarFields == {"address", "website", "phone", "photoUrl"}

\* the values the else branch reads from the incoming object
z_incoming(obj) ==
    [ address  |-> z_address(obj), website |-> z_website(obj),
      phone    |-> z_phone(obj),   photoUrl |-> z_photo_url(obj) ]

\* C1: in the Zurich build, once address, website, phone or photoUrl of a place
\* is non-empty, no pass of the object loop changes it; a field changes only
\* when its existing value is empty or absent.
C1_FillOnly ==
    [][\A key \in DOMAIN places_by_id : \A f \in ScalarFields :
           Truthy(places_by_id[key][f]) =>
               /\ key \in DOMAIN places_by_id'
               /\ places_by_id'[key][f] = places_by_id[key][f]]_vars

\* a merge whose incoming object carried a different non-empty value for each
\* of the four fields, all four already set
C1_Witness ==
    /\ z_last.op = "merge"
    /\ \A f \in ScalarFields :
           /\ Truthy(z_last.before[f])
           /\ Truthy(z_incoming(z_last.obj)[f])
           /\ z_incoming(z_last.obj)[f] # z_last.before[f]
           /\ places_by_id[z_identifier(z_last.obj)][f] = z_last.before[f]

\* C2: in the Zurich build, a merge never removes a tag: the tag set of every
\* place after a pass of the loop contains its tag set before the pass.
C2_TagsGrow ==
    [][\A key \in DOMAIN places_by_id :
           Range(places_by_id[key].tags) \subseteq Range(places_by_id'[key].tags)]_vars

\* a merge of an object without tags into a place that has tags
C2_Witness ==
    /\ z_last.op = "merge"
    /\ z_last.before.tags # <<>>
    /\ z_tags(z_category_names(z_last.obj)) = <<>>
    /\ Range(z_last.before.tags) \subseteq Range(places_by_id[z_identifier(z_last.obj)].tags)

FrameFields ==
    {"id", "name", "category", "lat", "lon", "mapsUrl", "indoorOutdoor", "durationMins",
     "bestTimeOfDay", "description"}

\* C7: a Zurich merge leaves id, name, category, lat, lon, mapsUrl,
\* indoorOutdoor, durationMins, bestTimeOfDay and description of every place
\* as the first insert set them.
C7_MergeFrame ==
    [][\A key \in DOMAIN places_by_id : \A f \in FrameFields :
           places_by_id'[key][f] = places_by_id[key][f]]_vars

\* a merge of an object that would have given every one of these fields
\* (but the id) another value
C7_Witness ==
    /\ z_last.op = "merge"
    /\ \A f \in FrameFields \ {"id"} :
           /\ z_new_place(z_last.obj)[f] # z_last.before[f]
           /\ places_by_id[z_identifier(z_last.obj)][f] = z_last.before[f]


-----------------------------------------------------------------------------
(* Properties of both first-pass builds                                    *)

\* the tag lists of all places of the OSM list and of the Zurich dict
AllTagLists ==
    {places[i].tags : i \in 1..Len(places)}
        \cup {places_by_id[key].tags : key \in DOMAIN places_by_id}

\* C3: no two places of the collection have the same id, in the OSM list and
\* in the Zurich dict, after any sequence of records.
C3_UniqueIds ==
    /\ \A i, j \in 1..Len(places) : places[i].id = places[j].id => i = j
    /\ \A k1, k2 \in DOMAIN places_by_id :
           places_by_id[k1].id = places_by_id[k2].id => k1 = k2

\* C4: every tag of every place is a member of ALLOWED_TAGS, after every pass
\* of either build, whatever tokens the records carry.
C4_TagsAllowed == \A tags \in AllTagLists : Range(tags) \subseteq ALLOWED_TAGS

\* the OSM build accepted an element whose cuisine holds a token ("pizza")
\* that no table knows
C4_Witness ==
    /\ o_last.op = "accept"
    /\ Contains("pizza", o_last.element.tags.cuisine)
    /\ places[Len(places)].tags = <<"asian", "asian", "sushi">>

\* C5: the tag list of every place holds no tag twice.
C5_TagsDuplicateFree == \A tags \in AllTagLists : Cardinality(Range(tags)) = Len(tags)

\* a record without a name or without a coordinate pair
z_invalid(obj) == z_lat(obj) = None \/ z_lon(obj) = None \/ ~Truthy(z_name(obj))
o_invalid(element) == element_center(element) = NoPair \/ ~Truthy(element.tags.name)

\* C6: a record with no non-empty name or no coordinate pair is rejected:
\* build_place returns None for it, the pass that reads it leaves the
\* collection as it was, and the loop goes on.
C6_RejectInvalid ==
    [][/\ (z_count' # z_count /\ z_invalid(z_last'.obj)) =>
              /\ places_by_id' = places_by_id
              /\ z_order' = z_order
              /\ z_pc' = "loop"
       /\ (o_count' # o_count /\ o_invalid(o_last'.element)) =>
              /\ \A category \in CATEGORY_QUERIES_KEYS :
                     build_place(o_last'.element, category) = NoPlace
              /\ places' = places
              /\ seen' = seen
              /\ per_category' = per_category
              /\ o_pc' = "loop"]_vars

\* the Zurich build inserted a place right after it rejected an object without
\* a name, having a place already
C6_Witness ==
    /\ z_last.op = "insert"
    /\ z_last.prev = "no_name"
    /\ Cardinality(DOMAIN places_by_id) = 2

OsmScalarFields == {"address", "website", "phone"}

\* the place of the OSM list with the given id
o_existing(id) == places[CHOOSE i \in 1..Len(places) : places[i].id = id]

-----------------------------------------------------------------------------
(* Properties of the OSM per-category cap                                  *)

\* the number of accepted places of a category
o_accepted(category) == Cardinality({i \in 1..Len(places) : places[i].category = category})

\* C8: at every point of build_places each category has at most
\* limit_per_category accepted places, and an element whose category has
\* reached the cap takes the cap's `continue`, before build_place is called
\* (the passes "rejected", "duplicate" and "accept" come after that call).
C8_CategoryCap ==
    /\ \A category \in CATEGORY_QUERIES_KEYS :
           /\ o_accepted(category) <= limit_per_category
           /\ per_category[category] = o_accepted(category)
    /\ o_last.op \in {"rejected", "duplicate", "accept"} =>
           o_last.count_before < limit_per_category
    /\ (o_last.category # None /\ o_last.count_before >= limit_per_category) =>
           o_last.op = "capped"
    /\ limit_per_category = 0 => places = <<>>

\* an element skipped at the cap that accepted places of its category filled
C8_Witness ==
    /\ o_last.op = "capped"
    /\ limit_per_category = 2
    /\ o_accepted(o_last.category) = 2

-----------------------------------------------------------------------------
(* Properties of category_from_type                                        *)

\* every trigger keyword of the keyword rules, and every code of the type rules
AllKeywords ==
    { "hotel", "accommodation", "hostel", "lodging", "event", "festival", "concert",
      "show", "theatre", "theater", "exhibition", "performance", "restaurant",
      "gastronomy", "dinner", "lunch", "breakfast", "meal", "cuisine", "cafe",
      "coffee", "tea room", "coffee house", "bar", "pub", "nightlife", "club",
      "disco", "cocktail", "lounge", "museum", "gallery", "market", "park",
      "garden", "nature", "water", "lake", "river", "view", "panorama", "lookout",
      "vantage", "walk", "hiking", "trail", "route", "shopping", "shop", "boutique",
      "mall", "store", "sport", "fitness", "gym", "swimming", "climbing",
      "ice rink", "tennis", "wellness", "spa", "sauna", "massage", "bath", "sight",
      "sightseeing", "attraction", "landmark", "historic" }

AllRuleCodes ==
    { "restaurant", "cafeorcoffeeshop", "barorpub", "bar", "museum", "hotel",
      "lodgingbusiness", "hostel" }

NoRuleMatches(types, categories) ==
    /\ \A i \in 1..Len(categories) :
           LET label == Lower(categories[i])
           IN \A keyword \in AllKeywords : ~Contains(keyword, label)
    /\ Range(types) \cap AllRuleCodes = {}

\* C10: category_from_type returns a key of CATEGORY_DEFAULTS for every list
\* of type codes and every list of labels, the empty lists included, and
\* returns "activity" when no keyword rule and no type-code rule matches.
C10_Total ==
    c_pc = "done" =>
        /\ c_result \in DOMAIN CATEGORY_DEFAULTS
        /\ NoRuleMatches(c_types, c_categories) => c_result = "activity"

\* the fallback returned for a label and a type code that no rule knows
C10_Witness ==
    /\ c_pc = "done"
    /\ c_categories = <<"Zoo">>
    /\ c_types = <<"place">>
    /\ c_result = "activity"

\* the keyword rules in the order of the if statements, each with its triggers
KeywordRules ==
    << [category |-> "accommodation", keywords |-> {"hotel", "accommodation", "hostel", "lodging"}],
       [category |-> "event",
        keywords |-> {"event", "festival", "concert", "show", "theatre", "theater",
                      "exhibition", "performance"}],
       [category |-> "restaurant",
        keywords |-> {"restaurant", "gastronomy", "dinner", "lunch", "breakfast", "meal",
                      "cuisine"}],
       [category |-> "cafe", keywords |-> {"cafe", "coffee", "tea room", "coffee house"}],
       [category |-> "bar",
        keywords |-> {"bar", "pub", "nightlife", "club", "disco", "cocktail", "lounge"}],
       [category |-> "museum", keywords |-> {"museum", "gallery"}],
       [category |-> "market", keywords |-> {"market"}],
       [category |-> "park", keywords |-> {"park", "garden", "nature", "water", "lake", "river"}],
       [category |-> "viewpoint", keywords |-> {"view", "panorama", "lookout", "vantage"}],
       [category |-> "walk", keywords |-> {"walk", "hiking", "trail", "route"}],
       [category |-> "shopping", keywords |-> {"shopping", "shop", "boutique", "mall", "store"}],
       [category |-> "sport",
        keywords |-> {"sport", "fitness", "gym", "swimming", "climbing", "ice rink", "tennis"}],
       [category |-> "wellness", keywords |-> {"wellness", "spa", "sauna", "massage", "bath"}],
       [category |-> "sightseeing",
        keywords |-> {"sight", "sightseeing", "attraction", "landmark", "historic"}] >>

\* the type-code rules in the order of the if statements
TypeRules ==
    << [category |-> "restaurant", codes |-> {"restaurant"}],
       [category |-> "cafe", codes |-> {"cafeorcoffeeshop"}],
       [category |-> "bar", codes |-> {"barorpub", "bar"}],
       [category |-> "museum", codes |-> {"museum"}],
       [category |-> "accommodation", codes |-> {"hotel", "lodgingbusiness", "hostel"}] >>

\* for each label, the keyword rules with a trigger inside the lower-cased label
RulesOfLabel ==
    [label \in Labels |->
        {r \in 1..Len(KeywordRules) :
            \E keyword \in KeywordRules[r].keywords : Contains(keyword, Lower(label))}]

MatchingKeywordRules(categories) ==
    UNION {RulesOfLabel[categories[i]] : i \in 1..Len(categories)}

MatchingTypeRules(types) ==
    {r \in 1..Len(TypeRules) : TypeRules[r].codes \cap Range(types) # {}}

First(S) == CHOOSE r \in S : \A s \in S : r <= s

\* C11: category_from_type returns the category of the first keyword rule, in
\* the order accommodation, event, restaurant, cafe, bar, museum, market, park,
\* viewpoint, walk, shopping, sport, wellness, sightseeing, that has a trigger
\* occurring inside some lower-cased label, whatever the order of the labels
\* and whatever the type codes; the type-code rules (first match in their
\* order, else "activity") decide only when no keyword rule matches any label.
C11_FirstRuleWins ==
    c_pc = "done" =>
        LET by_keyword == MatchingKeywordRules(c_categories)
            by_code == MatchingTypeRules(c_types)
        IN IF by_keyword # {} THEN c_result = KeywordRules[First(by_keyword)].category
           ELSE IF by_code # {} THEN c_result = TypeRules[First(by_code)].category
           ELSE c_result = "activity"

\* a later label triggers an earlier rule, and a type code names a third category
C11_Witness ==
    /\ c_pc = "done"
    /\ c_categories = <<"Nightlife", "Hotels">>
    /\ c_types = <<"museum">>
    /\ MatchingKeywordRules(c_categories) = {1, 5}
    /\ c_result = "accommodation"


-----------------------------------------------------------------------------
(* Properties of the field-fill pass                                       *)

\* photoUrl, address, website and phone are all non-empty
e_complete(place) == \A field \in ScalarFields : Truthy(Get(place, field))

\* C12: enrich_place makes no lookup for a place whose photoUrl, address,
\* website and phone are all non-empty: no call is ever inside a lookup or
\* killed by one for such a place, and the call returns False with an empty
\* list of lookups and the place as it was.
C12_NoLookupWhenComplete ==
    /\ e_pc \in {"entity", "image", "crashed"} /\ e_call.index > 0 =>
           ~e_complete(e_call.before)
    /\ e_last.op # "none" /\ e_complete(e_last.before) =>
           /\ e_last.lookups = <<>>
           /\ e_last.result = FALSE
           /\ e_places[e_last.index] = e_last.before

\* a complete place returns at once, after an earlier place was looked up
C12_Witness ==
    /\ e_last.op = "complete"
    /\ e_last.index = 2
    /\ e_complete(e_last.before)
    /\ DOMAIN e_world # {}
    /\ e_last.lookups = <<>>


\* one place before and after a step: keys are kept, a new key is one of the
\* four, and a changed value is one of the four that was empty
e_only_filled(before, after) ==
    /\ DOMAIN before \subseteq DOMAIN after
    /\ DOMAIN after \ DOMAIN before \subseteq ScalarFields
    /\ \A key \in DOMAIN before :
           after[key] # before[key] => key \in ScalarFields /\ ~Truthy(before[key])

\* C13: every step of a call of enrich_place leaves the list of places as
\* long as it was and changes, in the place at hand only, nothing but fields
\* among address, website, phone and photoUrl whose value before the step was
\* empty or absent; a non-empty field and every other field keep their value.
C13_FillsOnlyEmpty ==
    [][(e_pc \in {"loop", "entity", "image"}) =>
          /\ Len(e_places') = Len(e_places)
          /\ \A i \in 1..Len(e_places) : e_only_filled(e_places[i], e_places'[i])
          /\ \A i \in 1..Len(e_places) : i # e_scanned + 1 => e_places'[i] = e_places[i]]_vars

\* the matched entity offers a website, a phone and an address to a place
\* that has a website: the website stays, phone and empty address are filled
C13_Witness ==
    /\ e_last.op = "filled"
    /\ e_last.result = TRUE
    /\ e_last.best = "Q1"
    /\ e_last.before.website = "http://old"
    /\ e_last.before.address = ""
    /\ e_last.before.phone = None
    /\ e_places[e_last.index] =
           [e_last.before EXCEPT !.address = "Heimplatz 1", !.phone = "+41 44 253 84 84"]


\* the candidate has a coordinate pair
e_located(entity_id) ==
    /\ Entities[entity_id].claims.P625.k = "dict"
    /\ Entities[entity_id].claims.P625.latitude # None
    /\ Entities[entity_id].claims.P625.longitude # None

\* its distance to the place, in metres
e_distance(place, entity_id) ==
    haversine_km(place.lat, place.lon, Entities[entity_id].claims.P625.latitude,
                 Entities[entity_id].claims.P625.longitude)

\* the candidates of a call that have coordinates and lie within max_km
e_eligible(call) ==
    {call.candidates[i] : i \in {j \in 1..Len(call.candidates) :
        /\ e_located(call.candidates[j])
        /\ e_distance(call.before, call.candidates[j]) <= MaxKm}}

\* the values an entity offers for the four fields
e_offers(entity_id) ==
    {Entities[entity_id].claims[pid] : pid \in {"P856", "P1329", "P969", "P6375"}}
        \cup {get_image_url(Entities[entity_id].claims.P18)}

\* C14: once best_entity has seen every candidate of a call, the entity
\* enrich_place fills from is a candidate with coordinates whose distance to
\* the place is at most max_km and minimal among all such candidates, and
\* every value written comes from that entity; when every candidate lacks
\* coordinates or lies farther than max_km, best_entity returns None, the
\* place is unchanged and enrich_place returns False.
C14_NearestWithinRadius ==
    e_last.op \in {"no_entity", "filled", "image"} =>
        LET place == e_last.before
            after == e_places[e_last.index]
        IN IF e_eligible(e_last) = {}
           THEN /\ e_last.op = "no_entity"
                /\ e_last.best = None
                /\ after = place
                /\ e_last.result = FALSE
           ELSE /\ e_last.op # "no_entity"
                /\ e_last.best \in e_eligible(e_last)
                /\ \A other \in e_eligible(e_last) :
                       e_distance(place, e_last.best) <= e_distance(place, other)
                /\ \A field \in ScalarFields :
                       Get(after, field) # Get(place, field) =>
                           Get(after, field) \in e_offers(e_last.best)

\* one candidate 5.0 km away with max_km = 2.0: no entity, no change, False
C14_Witness ==
    /\ e_last.op = "no_entity"
    /\ e_last.candidates = <<"Q3">>
    /\ e_located("Q3")
    /\ e_distance(e_last.before, "Q3") = 5004
    /\ MaxKm = 2000
    /\ e_last.lookups = <<"search_wikidata", "get_entity">>
    /\ e_places[e_last.index] = e_last.before
    /\ e_last.result = FALSE


-----------------------------------------------------------------------------
(* Properties of the batch merges and of the local embedding pass          *)

\* the generated text of a result line, None when the line carries none
d_text(record) ==
    IF m_line_skipped(record) THEN None
    ELSE IF Truthy(extract_text_from_response(m_body(record)))
         THEN extract_text_from_response(m_body(record))
         ELSE None

\* the results that carry a non-empty generated text for an id
d_hits(id) == {j \in 1..Len(m_results) : m_results[j].custom_id = id /\ d_text(m_results[j]) # None}

Last(S) == CHOOSE j \in S : \A k \in S : k <= j

\* a description merge has finished its first pass over the results
d_merged == m_kind = "descriptions" /\ m_pc = "done" /\ m_round = 1

\* C15 as stated: after the description merge, every place whose id occurs in
\* the results with a non-empty generated text has aiDescription equal to the
\* last such text; every other place is unchanged, and the set and order of
\* places is unchanged.
C15_AttachesText ==
    d_merged =>
        /\ Len(m_output.places) = Len(m_input.places)
        /\ \A i \in 1..Len(m_input.places) :
               LET before == m_input.places[i]
               IN IF d_hits(before.id) = {} THEN m_output.places[i] = before
                  ELSE m_output.places[i] =
                           Put(before, "aiDescription",
                               d_text(m_results[Last(d_hits(before.id))]))

\* C15 as the code has it: after the description merge, for every id that
\* occurs in the results with a non-empty generated text, the last place of
\* the dataset that has this id has aiDescription equal to the last such text
\* with leading and trailing whitespace removed, whatever it had before;
\* every other place (an earlier place of the same id, a place whose id is
\* absent from the results) is unchanged; a result id matching no place adds
\* no place; the places and their order are unchanged.
C15_AttachesStrippedText ==
    d_merged =>
        /\ Len(m_output.places) = Len(m_input.places)
        /\ \A i \in 1..Len(m_input.places) :
               LET before == m_input.places[i]
                   is_last == \A k \in (i + 1)..Len(m_input.places) :
                                  m_input.places[k].id # before.id
               IN IF d_hits(before.id) = {} \/ ~is_last THEN m_output.places[i] = before
                  ELSE m_output.places[i] =
                           Put(before, "aiDescription",
                               Strip(d_text(m_results[Last(d_hits(before.id))])))

\* two texts for one id, the later one padded with blanks, and a text for an
\* id that no place has: the later text is attached without the blanks
C15_Witness ==
    /\ d_merged
    /\ Len(m_input.places) = 2
    /\ m_input.places[1].id = "osm-way-2-caf-bar"
    /\ m_input.places[1].aiDescription = "Old text."
    /\ m_input.places[2].id = "zurich-1"
    /\ Len(m_results) = 2
    /\ m_results[1].custom_id = "osm-way-2-caf-bar"
    /\ d_text(m_results[1]) = "Coffee by the river."
    /\ d_text(m_results[2]) = " A grand brasserie. "
    /\ m_output.places[1].aiDescription = "Coffee by the river."
    /\ m_output.places[2].aiDescription = "A grand brasserie."


\* two places that differ in nothing but the embedding
same_but_embedding(before, after) ==
    /\ DOMAIN after \ {"embedding"} = DOMAIN before \ {"embedding"}
    /\ \A key \in DOMAIN before \ {"embedding"} : after[key] = before[key]

\* C16: every pass over a result line of the OpenAI embedding merge and every
\* pass over a place of the local embedding loop leaves the list of places as
\* long as it was and changes no field of any place but embedding;
\* aiDescription in particular is what it was.
C16_OnlyEmbedding ==
    [][/\ (m_kind = "embeddings" /\ m_pc = "lines") =>
              /\ Len(m_places') = Len(m_places)
              /\ \A i \in 1..Len(m_places) : same_but_embedding(m_places[i], m_places'[i])
       /\ (q_pc = "places") =>
              /\ Len(q_places') = Len(q_places)
              /\ \A i \in 1..Len(q_places) : same_but_embedding(q_places[i], q_places'[i])]_vars

\* C17: the second run of the field-fill pass, with the knowledge source
\* answering as in the first, changes no place and writes the dataset the
\* first run wrote; the second merge of the same results file (descriptions
\* or embeddings) writes the dataset the first merge wrote.
C17_Idempotent ==
    /\ e_round = 2 /\ e_pc \in {"loop", "entity", "image", "done"} =>
           e_places = e_first.places
    /\ e_round = 2 /\ e_pc = "done" => e_output = e_first
    /\ m_round = 2 /\ m_pc = "done" => m_output = m_first

\* the first run filled a website from Q2, which has no phone and no image
\* URL to give; the second run looked the place up again, all three lookups,
\* updated nothing and wrote the same dataset
C17_Witness ==
    /\ e_round = 2
    /\ e_pc = "done"
    /\ Len(e_first.places) = 1
    /\ Get(e_first.places[1], "website") = "https://q2.example"
    /\ e_last.lookups = <<"search_wikidata", "get_entity", "get_image_url">>
    /\ e_last.best = "Q2"
    /\ e_last.result = FALSE
    /\ e_updated = 0
    /\ e_output = e_first

\* C18: the aiDescription the second run of the local embedding pass writes
\* for a place is the one the first run wrote.
C18_DescriptionFixedPoint ==
    q_round = 2 /\ q_pc = "done" =>
        \A i \in 1..Len(q_output.places) :
            q_output.places[i].aiDescription = q_first.places[i].aiDescription

\* C19: a lookup that raises never ends the enrichment run: main is never
\* left by an exception while a place is being enriched, with the remaining
\* places unscanned and no dataset written.
C19_FailureSkipsPlace ==
    ~(e_pc = "crashed" /\ e_call.index > 0)

\* C20: enrichment, description merge and embedding merge write an output
\* file only for a document that has the top-level places sequence.
C20_MalformedIsFatal ==
    /\ e_output # NoDocument => e_input.shape = "places"
    /\ m_output # NoDocument => m_input.shape = "places"


-----------------------------------------------------------------------------
(* Order of the records of one identifier in the Zurich build              *)

\* the accepted objects of one identifier, in the order the loop took them
z_records(key) == SelectSeq(z_hist, LAMBDA obj : z_identifier(obj) = key)

\* every processing order of a sequence of objects
Orders(objs) ==
    { [i \in 1..Len(objs) |-> objs[p[i]]] :
        p \in {q \in [1..Len(objs) -> 1..Len(objs)] : Range(q) = 1..Len(objs)} }

RECURSIVE z_final(_)
\* the place of one identifier after the loop body has taken its objects in
\* this order: the first through the insert branch, the others through the
\* else branch
z_final(objs) ==
    IF Len(objs) = 1 THEN z_new_place(objs[1])
    ELSE LET existing == z_final(SubSeq(objs, 1, Len(objs) - 1))
             obj == objs[Len(objs)]
             tags == z_tags(z_category_names(obj))
         IN z_merged(existing, obj,
                     CHOOSE tag_list \in ListsOf(z_tag_union(existing.tags, tags)) : TRUE)

\* the distinct non-empty values the objects carry for one field
z_values(objs, f) ==
    {z_incoming(objs[i])[f] : i \in 1..Len(objs)} \ {None, ""}

\* C21: for the records of one identifier and every other processing order of
\* them, the place ends with the same set of tags, and with the same address,
\* website, phone and photoUrl whenever the records carry at most one
\* distinct non-empty value for that field.
C21_OrderIndependent ==
    \A key \in DOMAIN places_by_id :
        \A objs \in Orders(z_records(key)) :
            /\ Range(z_final(objs).tags) = Range(places_by_id[key].tags)
            /\ \A f \in ScalarFields :
                   Cardinality(z_values(objs, f)) <= 1 =>
                       z_final(objs)[f] = places_by_id[key][f]


-----------------------------------------------------------------------------
(* Properties of the OSM identifier and address                            *)

\* the base letter of a letter that carries a diacritic
BaseLetter(c) == IF c = "é" THEN "e" ELSE IF c = "É" THEN "E" ELSE c

RECURSIVE Unaccent(_)
Unaccent(s) ==
    IF Len(s) = 0 THEN "" ELSE BaseLetter(CharAt(s, 1)) \o Unaccent(SubSeq(s, 2, Len(s)))

RECURSIVE AlnumRuns(_, _)
\* the maximal runs of letters and digits of s; cur: the run being read
AlnumRuns(s, cur) ==
    IF Len(s) = 0 THEN (IF cur = "" THEN <<>> ELSE <<cur>>)
    ELSE IF CharAt(s, 1) \in AlnumChars
         THEN AlnumRuns(SubSeq(s, 2, Len(s)), cur \o CharAt(s, 1))
         ELSE (IF cur = "" THEN <<>> ELSE <<cur>>) \o AlnumRuns(SubSeq(s, 2, Len(s)), "")

\* the slug of a name: its runs of letters and digits, diacritics folded,
\* in lower case and joined by single hyphens; "place" when there is none
folded_slug(name) ==
    LET runs == AlnumRuns(Lower(Unaccent(name)), "")
    IN IF runs = <<>> THEN "place" ELSE Join("-", runs)

\* C22: the identifier of an accepted OSM place ends with the slug of its
\* name: the lower-case alphanumeric runs of the name, a letter with a
\* diacritic folded to its base letter, joined by single hyphens, or "place".
C22_SlugFoldsDiacritics ==
    o_last.op = "accept" =>
        places[Len(places)].id =
            "osm-" \o o_last.element.type \o "-" \o o_last.element.id \o "-"
                \o folded_slug(o_last.element.tags.name)

\* the address parts of an element's tags, in the order of build_address
o_parts(tags) ==
    <<tags.addr_street, tags.addr_housenumber, tags.addr_postcode, tags.addr_city>>

\* the present parts joined by ", ", a house number that follows a present
\* street joined onto the street with one space
street_joined_address(tags) ==
    IF Truthy(tags.addr_street) /\ Truthy(tags.addr_housenumber)
    THEN Join(", ", <<tags.addr_street \o " " \o tags.addr_housenumber>>
                        \o Present(<<tags.addr_postcode, tags.addr_city>>))
    ELSE Join(", ", Present(o_parts(tags)))

\* C23: the address of an accepted OSM place that has some address part is
\* its present parts in the order street, house number, postal code, city,
\* joined by ", ", except that a house number after a present street is
\* joined onto the street with a space; nothing else is joined with a space.
C23_OnlyHouseNumberJoined ==
    (o_last.op = "accept" /\ Present(o_parts(o_last.element.tags)) # <<>>) =>
        places[Len(places)].address = street_joined_address(o_last.element.tags)

\* a catalogue object without address parts: no address object, or one with
\* none of streetAddress, postalCode, addressLocality
z_no_parts(obj) ==
    \/ obj.address.k # "dict"
    \/ Present(<<obj.address.streetAddress, obj.address.postalCode,
                 obj.address.addressLocality>>) = <<>>

\* C24: a place built from a record without any address part has no address
\* (None), never an empty string, in the OSM build and in the Zurich build.
C24_NoPartsNoAddress ==
    /\ (o_last.op = "accept" /\ Present(o_parts(o_last.element.tags)) = <<>>) =>
           places[Len(places)].address = None
    /\ (z_last.op = "insert" /\ z_no_parts(z_last.obj)) =>
           places_by_id[z_identifier(z_last.obj)].address = None


-----------------------------------------------------------------------------
(* The scan limit of the enrichment loop                                   *)

\* min(limit, n) for the dataset of the run
e_quota == IF e_limit < Len(e_places) THEN e_limit ELSE Len(e_places)

\* the run is over: the dataset was written, or an exception left main
e_ended == e_pc \in {"done", "crashed"}

\* the number of places handed to enrich_place so far, the call that an
\* exception left included
e_passed == IF e_call.index > 0 THEN e_call.index ELSE e_scanned

\* the places no call of enrich_place has reached are as they were loaded
e_later_untouched ==
    \A i \in 1..Len(e_places) :
        (i > e_scanned /\ i # e_call.index) => e_places[i] = e_input.places[i]

\* C25: in an enrichment run the places are passed to enrich_place in dataset
\* order and each is counted when its call returns, whether or not it lacked
\* a field; updated <= scanned <= min(limit, n) at every step; no later place
\* is looked up or changed; and the run passes exactly the first min(limit, n)
\* places: when it is over, min(limit, n) places have been passed.
C25_ScansFirstPlaces ==
    /\ e_updated <= e_scanned
    /\ e_scanned <= e_quota
    /\ e_call.index > 0 => (e_call.index = e_scanned + 1 /\ e_call.index <= e_quota)
    /\ e_last.op # "none" => e_last.index = e_scanned
    /\ e_later_untouched
    /\ e_ended => e_passed = e_quota


=============================================================================
